---- MODULE Spec2Model ----
(***************************************************************************)
(* Model of the x-recon content store (src/src/db/index.ts): the          *)
(* canonicalizer, the deterministic merge policy of upsertPost, and the    *)
(* hydration bookkeeping updates, for one posts table.                     *)
(*                                                                         *)
(* Text is a sequence of lexical chunks:                                   *)
(*   "sp"    one whitespace character                                      *)
(*   "url"   an http(s) URL of 19 characters (https://t.co/abc123)         *)
(*   "punct" one character of [.!?,;:]                                     *)
(*   "hi"    a 2-letter word                                               *)
(*   "word"  a 10-letter word                                              *)
(*   "block" a 200-letter word                                             *)
(* SQL NULL / JS undefined text is the one-chunk sequence NullText.        *)
(***************************************************************************)
EXTENDS Integers, Sequences, FiniteSets, TLC

VARIABLES posts, last, writers, history, runs, checkpoint, due, library, pager,
          catalog, found, tags, tagCall, batch, sync, auth, canon

vars ==
  <<posts, last, writers, history, runs, checkpoint, due, library, pager,
    catalog, found, tags, tagCall, batch, sync, auth, canon>>

\* the state of the hydration service: its runs, the backfill checkpoint,
\* and for each row whether the clock has passed its next_retry_at
hydration == <<runs, checkpoint, due>>

\* the state of the tools that read the store
listing == <<library, pager>>
searching == <<catalog, found>>
tagging == <<tags, tagCall>>
tools == <<listing, searching, tagging, batch, sync, auth, canon>>

(***************************************************************************)
(* Bounds                                                                  *)
(***************************************************************************)
MaxVersion == 3
MaxAttempts == 1

Ids == {"a1"}
\* the ids a hydration run can meet, in ORDER BY created_at ASC, id ASC
IdOrder == <<"a1", "a2">>
AllIds == {IdOrder[n] : n \in 1..Len(IdOrder)}
Writers == {"w1", "w2"}

NullText == <<"null">>

(***************************************************************************)
(* Text primitives                                                         *)
(***************************************************************************)
ChunkLen(c) ==
  CASE c = "sp" -> 1
    [] c = "url" -> 19
    [] c = "punct" -> 1
    [] c = "hi" -> 2
    [] c = "word" -> 10
    [] c = "block" -> 200

RECURSIVE TextLength(_)
TextLength(s) == IF s = <<>> THEN 0 ELSE ChunkLen(Head(s)) + TextLength(Tail(s))

RECURSIVE TrimStart(_)
TrimStart(s) == IF s # <<>> /\ Head(s) = "sp" THEN TrimStart(Tail(s)) ELSE s

RECURSIVE TrimEnd(_)
TrimEnd(s) ==
  IF s # <<>> /\ s[Len(s)] = "sp" THEN TrimEnd(SubSeq(s, 1, Len(s) - 1)) ELSE s

Trim(s) == TrimEnd(TrimStart(s))

\* replace(/\s+/g, ' '): every run of whitespace becomes one space
RECURSIVE CollapseSpaces(_)
CollapseSpaces(s) ==
  IF Len(s) < 2 THEN s
  ELSE IF s[1] = "sp" /\ s[2] = "sp" THEN CollapseSpaces(Tail(s))
  ELSE <<s[1]>> \o CollapseSpaces(Tail(s))

normalizeWhitespace(input) ==
  IF input = NullText \/ input = <<>> THEN <<>>
  ELSE Trim(CollapseSpaces(input))

\* /^\s*(https?:\/\/\S+)\s*[.!?,;:]*\s*$/i on a normalized text: the URL
\* (with every non-space chunk glued to it), then optionally one space and
\* trailing punctuation.
URL_ONLY_REGEX(s) ==
  /\ s # <<>>
  /\ s[1] = "url"
  /\ \A i \in 1..Len(s) :
       s[i] = "sp" => \A j \in (i + 1)..Len(s) : s[j] = "punct"

\* replace(/https?:\/\/\S+/gi, ''): a URL swallows the chunks glued to it
RECURSIVE StripUrls(_, _)
StripUrls(s, inUrl) ==
  IF s = <<>> THEN <<>>
  ELSE IF Head(s) = "url" THEN StripUrls(Tail(s), TRUE)
  ELSE IF Head(s) = "sp" THEN <<"sp">> \o StripUrls(Tail(s), FALSE)
  ELSE IF inUrl THEN StripUrls(Tail(s), TRUE)
  ELSE <<Head(s)>> \o StripUrls(Tail(s), FALSE)

\* replace(/[\p{P}\p{S}]/gu, '')
StripPunct(s) == SelectSeq(s, LAMBDA c : c # "punct")

HasUrl(s) == \E i \in 1..Len(s) : s[i] = "url"

isPlaceholderUrlContent(content) ==
  LET normalized == normalizeWhitespace(content)
      withoutUrls == Trim(StripPunct(StripUrls(normalized, FALSE)))
  IN  IF normalized = <<>> THEN TRUE
      ELSE IF URL_ONLY_REGEX(normalized) THEN TRUE
      ELSE TextLength(withoutUrls) < 10 /\ HasUrl(normalized)

sourcePriority(source) ==
  IF source = "hydration" \/ source = "backfill" THEN 30
  ELSE IF source = "manual" THEN 20
  ELSE IF source = "bookmark" THEN 10
  ELSE 5

Min(a, b) == IF a < b THEN a ELSE b
Max(a, b) == IF a > b THEN a ELSE b

computeQualityScore(hasArticleBody, isPlaceholder, contentLength, source) ==
  LET articleScore == IF hasArticleBody THEN 100 ELSE 0
      nonPlaceholderScore == IF isPlaceholder THEN 0 ELSE 20
      lengthScore == Min(50, contentLength \div 200)
  IN  articleScore + nonPlaceholderScore + lengthScore + sourcePriority(source)

\* variant: the digest of the empty text is a hash like any other
hashContent_NeverNull(content) == <<"sha256">> \o normalizeWhitespace(content)

\* sha256 of the normalized text, taken as collision free: the digest is
\* the normalized text tagged "sha256"; NullText for an empty body.
hashContent(content) ==
  LET normalized == normalizeWhitespace(content)
  IN  IF normalized = <<>> THEN NullText ELSE <<"sha256">> \o normalized

(***************************************************************************)
(* Payloads (XPost).  article = FALSE: no article sub-object; title, body, *)
(* note are NullText when the optional field is absent.                    *)
(***************************************************************************)
Post(article, title, body, note, text, reply) ==
  [article |-> article, title |-> title, body |-> body,
   note_tweet_text |-> note, text |-> text, in_reply_to |-> reply,
   quoted_tweet_id |-> FALSE, is_thread |-> FALSE]

NoPost == Post(FALSE, NullText, NullText, NullText, NullText, FALSE)

determineType(post) ==
  IF post.article THEN "article"
  ELSE IF post.in_reply_to THEN "reply"
  ELSE IF post.quoted_tweet_id THEN "quote"
  ELSE IF post.is_thread THEN "thread_root"
  ELSE "post"

\* a || null
OrNull(s) == IF s = <<>> THEN NullText ELSE s

\* a ?? b
Coalesce(a, b) == IF a = NullText THEN b ELSE a

\* variant: an article with a body is hydrated, placeholder or not
deriveContentStatus_BodyIsEnough(type, hasArticleBody, contentText, placeholder, source) ==
  LET weak == IF source = "hydration" \/ source = "backfill" THEN "partial" ELSE "pending"
  IN  IF type = "article"
      THEN IF hasArticleBody THEN "hydrated" ELSE weak
      ELSE IF contentText # <<>> /\ ~placeholder THEN "hydrated" ELSE "pending"

\* the contentStatus canonicalizePost derives
deriveContentStatus(type, hasArticleBody, contentText, placeholder, source) ==
  LET weak == IF source = "hydration" \/ source = "backfill" THEN "partial" ELSE "pending"
  IN  IF type = "article"
      THEN IF hasArticleBody /\ ~placeholder THEN "hydrated"
           ELSE IF contentText # <<>> /\ ~placeholder THEN weak
           ELSE weak
      ELSE IF contentText # <<>> /\ ~placeholder THEN "hydrated" ELSE "pending"

canonicalizePost(post, source) ==
  LET type == determineType(post)
      articleTitle == OrNull(normalizeWhitespace(IF post.article THEN post.title ELSE NullText))
      articleContent == OrNull(normalizeWhitespace(IF post.article THEN post.body ELSE NullText))
      text == normalizeWhitespace(Coalesce(post.note_tweet_text, post.text))
      contentText ==
        normalizeWhitespace(Coalesce(articleContent, Coalesce(post.note_tweet_text, post.text)))
      hasArticleBody == articleContent # NullText
      placeholder == isPlaceholderUrlContent(contentText)
      contentSource ==
        IF articleContent # NullText THEN "article"
        ELSE IF normalizeWhitespace(post.note_tweet_text) # <<>> THEN "note_tweet"
        ELSE IF normalizeWhitespace(post.text) # <<>> THEN "tweet"
        ELSE "unknown"
      contentStatus ==
        deriveContentStatus(type, hasArticleBody, contentText, placeholder, source)
  IN  [type |-> type, text |-> text, articleTitle |-> articleTitle,
       articleContent |-> articleContent, contentText |-> contentText,
       contentSource |-> contentSource, contentStatus |-> contentStatus,
       contentHash |-> hashContent(contentText),
       qualityScore |-> computeQualityScore(hasArticleBody, placeholder,
                                            TextLength(contentText), source)]

\* variant: other content is accepted whatever the stored status
shouldAcceptContent_AnyNewHash(existing, incoming, forceContent) ==
  IF incoming.contentHash = NullText THEN FALSE
  ELSE IF forceContent THEN TRUE
  ELSE existing.content_hash # incoming.contentHash

\* variant: forceContent is tested before the empty hash
shouldAcceptContent_ForceFirst(existing, incoming, forceContent) ==
  IF forceContent THEN TRUE
  ELSE IF incoming.contentHash = NullText THEN FALSE
  ELSE IF existing.content_hash = incoming.contentHash THEN FALSE
  ELSE IF incoming.qualityScore > existing.content_quality_score THEN TRUE
  ELSE existing.content_status # "hydrated"

\* variant: the hash comparison is left out
shouldAcceptContent_NoHashTest(existing, incoming, forceContent) ==
  IF incoming.contentHash = NullText THEN FALSE
  ELSE IF forceContent THEN TRUE
  ELSE IF incoming.qualityScore > existing.content_quality_score THEN TRUE
  ELSE existing.content_status # "hydrated"

shouldAcceptContent(existing, incoming, forceContent) ==
  IF incoming.contentHash = NullText THEN FALSE
  ELSE IF forceContent THEN TRUE
  ELSE IF existing.content_hash = incoming.contentHash THEN FALSE
  ELSE IF incoming.qualityScore > existing.content_quality_score THEN TRUE
  ELSE existing.content_status # "hydrated"

(***************************************************************************)
(* Payloads and write sources the calls are made with                      *)
(***************************************************************************)
TitleA == <<"word">>
UrlOnly == <<"url">>

\* article announced by a list payload: title, no body, text is the t.co link
ArticleStub == Post(TRUE, TitleA, NullText, NullText, UrlOnly, FALSE)
\* article with its full body
ArticleFull == Post(TRUE, TitleA, <<"word", "sp", "sp", "block">>, NullText, UrlOnly, FALSE)
\* article whose body is itself only a link
ArticleLinkBody == Post(TRUE, TitleA, <<"url", "sp", "punct">>, NullText, UrlOnly, FALSE)
PlainTweet == Post(FALSE, NullText, NullText, NullText, <<"word">>, FALSE)
\* same words as PlainTweet, different whitespace
PlainTweetSpaced == Post(FALSE, NullText, NullText, NullText, <<"sp", "word", "sp">>, TRUE)
\* a few letters and a link
LinkTweet == Post(FALSE, NullText, NullText, NullText, <<"hi", "sp", "url", "punct">>, FALSE)
BlankTweet == Post(FALSE, NullText, NullText, NullText, <<"sp">>, FALSE)

Payloads ==
  {ArticleStub, ArticleFull, ArticleLinkBody, PlainTweet, PlainTweetSpaced,
   LinkTweet, BlankTweet}

Sources == {"hydration", "manual", "bookmark", "reference"}

\* canonicalizePost of every payload and source, computed once
Canonical == [post \in Payloads, source \in Sources |-> canonicalizePost(post, source)]

(***************************************************************************)
(* The posts table.  text, type and source stand for the columns that an   *)
(* upsert copies from its payload whatever it decides (author_handle,      *)
(* author_name, created_at, source_url, conversation_id, in_reply_to,      *)
(* raw_json are written the same way); ingested_at is datetime('now') on   *)
(* every write.  Timestamps are "null", "now" or "later".                  *)
(***************************************************************************)
NoRow ==
  [exists |-> FALSE, text |-> NullText, type |-> "none", source |-> "none", article_title |-> NullText, article_content |-> NullText,
   content_text |-> NullText, content_source |-> "unknown",
   content_status |-> "new", content_hash |-> NullText,
   content_quality_score |-> 0, content_version |-> 0,
   content_fetched_at |-> "null", last_hydration_attempt_at |-> "null",
   attempt_count |-> 0, next_retry_at |-> "null", error_code |-> "null",
   content_error |-> "null"]

RETRYABLE_STATUSES == {"new", "pending", "partial", "failed", "stale"}

\* SELECT_META_SQL: the columns upsertPost reads before deciding
SELECT_META_SQL(row) ==
  [exists |-> row.exists,
   content_hash |-> row.content_hash,
   content_quality_score |-> row.content_quality_score,
   content_status |-> row.content_status,
   content_version |-> row.content_version,
   article_title |-> row.article_title,
   article_content |-> row.article_content,
   content_text |-> row.content_text,
   content_source |-> row.content_source,
   content_fetched_at |-> row.content_fetched_at,
   next_retry_at |-> row.next_retry_at,
   error_code |-> row.error_code,
   content_error |-> row.content_error]

NoMeta == SELECT_META_SQL(NoRow)

FetchedAtOnAccept(status, otherwise) ==
  IF status = "hydrated" \/ status = "partial" THEN "now" ELSE otherwise

\* INSERT_POST_SQL with the parameters upsertPost binds
INSERT_POST_SQL(post, source, normalized) ==
  [exists |-> TRUE, text |-> normalized.text, type |-> normalized.type,
   source |-> source,
   article_title |-> normalized.articleTitle,
   article_content |-> normalized.articleContent,
   content_text |-> normalized.contentText,
   content_source |-> normalized.contentSource,
   content_status |-> normalized.contentStatus,
   content_hash |-> normalized.contentHash,
   content_quality_score |-> normalized.qualityScore,
   content_version |-> 1,
   content_fetched_at |-> FetchedAtOnAccept(normalized.contentStatus, "null"),
   last_hydration_attempt_at |-> "null", attempt_count |-> 0,
   next_retry_at |-> "null", error_code |-> "null", content_error |-> "null"]

\* the value upsertPost binds to @article_title
BoundArticleTitle(existing, normalized, acceptContent) ==
  IF acceptContent THEN normalized.articleTitle ELSE NullText

\* variant: every update counts as a new version
nextVersion_Always(existing, acceptContent) == existing.content_version + 1

\* const nextVersion = acceptContent ? existing.content_version + 1 : ...
nextVersion(existing, acceptContent) ==
  IF acceptContent THEN existing.content_version + 1 ELSE existing.content_version

\* the values upsertPost binds to the UPDATE parameters
UpdateParams(existing, post, source, normalized, acceptContent) ==
  [text |-> normalized.text, type |-> normalized.type, source |-> source,
   article_title |-> BoundArticleTitle(existing, normalized, acceptContent),
   article_content |-> IF acceptContent THEN normalized.articleContent ELSE existing.article_content,
   content_text |-> IF acceptContent THEN normalized.contentText ELSE existing.content_text,
   content_source |-> IF acceptContent THEN normalized.contentSource ELSE existing.content_source,
   content_status |-> IF acceptContent THEN normalized.contentStatus ELSE existing.content_status,
   content_hash |-> IF acceptContent THEN normalized.contentHash ELSE existing.content_hash,
   content_quality_score |-> IF acceptContent THEN normalized.qualityScore ELSE existing.content_quality_score,
   content_version |-> nextVersion(existing, acceptContent),
   content_fetched_at |-> IF acceptContent
                          THEN FetchedAtOnAccept(normalized.contentStatus, existing.content_fetched_at)
                          ELSE existing.content_fetched_at,
   error_code |-> IF acceptContent THEN "null" ELSE existing.error_code,
   content_error |-> IF acceptContent THEN "null" ELSE existing.content_error,
   next_retry_at |-> IF acceptContent THEN "null" ELSE existing.next_retry_at,
   expected_content_version |-> existing.content_version]

\* variant: WHERE id = @id
UpdateMatches_IdOnly(row, params) == row.exists

\* UPDATE_POST_SQL ... WHERE id = @id AND content_version = @expected_content_version
UpdateMatches(row, params) ==
  row.exists /\ row.content_version = params.expected_content_version

UPDATE_POST_SQL(row, params) ==
  [row EXCEPT !.text = params.text, !.type = params.type,
              !.source = params.source,
              !.article_title = params.article_title,
              !.article_content = params.article_content,
              !.content_text = params.content_text,
              !.content_source = params.content_source,
              !.content_status = params.content_status,
              !.content_hash = params.content_hash,
              !.content_quality_score = params.content_quality_score,
              !.content_version = params.content_version,
              !.content_fetched_at = params.content_fetched_at,
              !.error_code = params.error_code,
              !.content_error = params.content_error,
              !.next_retry_at = params.next_retry_at]

Options(force, hasExpected, expected) ==
  [forceContent |-> force, hasExpected |-> hasExpected,
   expectedContentVersion |-> expected]

Outcome(accepted, version, status, reason, raised) ==
  [contentAccepted |-> accepted, contentVersion |-> version,
   contentStatus |-> status, skippedReason |-> reason, raised |-> raised]

NoOutcome == Outcome(FALSE, 0, "none", "none", FALSE)

\* variant: a forced write skips the version check
VersionMismatch_UnlessForced(existing, options) ==
  /\ ~options.forceContent
  /\ options.hasExpected /\ existing.content_version # options.expectedContentVersion

\* options?.expectedContentVersion !== undefined && existing.content_version !== ...
VersionMismatch(existing, options) ==
  options.hasExpected /\ existing.content_version # options.expectedContentVersion

\* upsertPost run without another writer between its statements: the
\* conditional UPDATE then always matches in the first cycle.
upsertPostRow(row, post, source, options) ==
  LET normalized == Canonical[post, source]
      existing == SELECT_META_SQL(row)
      acceptContent == shouldAcceptContent(existing, normalized, options.forceContent)
  IN  IF ~existing.exists THEN INSERT_POST_SQL(post, source, normalized)
      ELSE IF VersionMismatch(existing, options) THEN row
      ELSE UPDATE_POST_SQL(row, UpdateParams(existing, post, source, normalized, acceptContent))

upsertPostOutcome(row, post, source, options) ==
  LET normalized == Canonical[post, source]
      existing == SELECT_META_SQL(row)
      acceptContent == shouldAcceptContent(existing, normalized, options.forceContent)
  IN  IF ~existing.exists
      THEN Outcome(TRUE, 1, normalized.contentStatus, "none", FALSE)
      ELSE IF VersionMismatch(existing, options)
      THEN Outcome(FALSE, existing.content_version, existing.content_status,
                   "version_mismatch", FALSE)
      ELSE Outcome(acceptContent,
                   nextVersion(existing, acceptContent),
                   IF acceptContent THEN normalized.contentStatus ELSE existing.content_status,
                   "none", FALSE)

\* variant: the claim matches on id and version alone
FetchingMatches_AnyStatus(row, version) ==
  row.exists /\ row.content_version = version

\* markHydrationFetching's UPDATE
FetchingMatches(row, version) ==
  row.exists /\ row.content_version = version /\ row.content_status \in RETRYABLE_STATUSES

\* variant: the claim leaves the error columns as they are
markHydrationFetchingRow_KeepsError(row, version) ==
  IF FetchingMatches(row, version)
  THEN [row EXCEPT !.content_status = "fetching",
                   !.last_hydration_attempt_at = "now",
                   !.attempt_count = row.attempt_count + 1]
  ELSE row

markHydrationFetchingRow(row, version) ==
  IF FetchingMatches(row, version)
  THEN [row EXCEPT !.content_status = "fetching",
                   !.last_hydration_attempt_at = "now",
                   !.attempt_count = row.attempt_count + 1,
                   !.error_code = "null", !.content_error = "null"]
  ELSE row

\* variant: the failure mark leaves next_retry_at as it is
markHydrationFailureRow_KeepsRetry(row, expectedVersion, nextStatus, errorCode, nextRetryAt) ==
  IF row.exists /\ row.content_version = expectedVersion /\ row.content_status = "fetching"
  THEN [row EXCEPT !.content_status = nextStatus, !.error_code = errorCode,
                   !.content_error = "message", !.content_fetched_at = "now"]
  ELSE row

\* markHydrationFailure's UPDATE
FailureMatches(row, expectedVersion) ==
  row.exists /\ row.content_version = expectedVersion /\ row.content_status = "fetching"

markHydrationFailureRow(row, expectedVersion, nextStatus, errorCode, nextRetryAt) ==
  IF FailureMatches(row, expectedVersion)
  THEN [row EXCEPT !.content_status = nextStatus, !.error_code = errorCode,
                   !.content_error = "message", !.next_retry_at = nextRetryAt,
                   !.content_fetched_at = "now"]
  ELSE row

(***************************************************************************)
(* Inputs                                                                  *)
(***************************************************************************)
\* options of a call on a row at version v: no expected version, or the
\* current one
OptionsFor(v) ==
  {Options(FALSE, FALSE, 0), Options(TRUE, FALSE, 0), Options(FALSE, TRUE, v)}

\* a forced hydration write pinned to a version the row does not have
StaleOptions(v) == Options(TRUE, TRUE, v + 1)

FailureArgs ==
  {[nextStatus |-> "failed", errorCode |-> "RETRY_MISSING", nextRetryAt |-> "later"],
   [nextStatus |-> "missing", errorCode |-> "NOT_FOUND", nextRetryAt |-> "null"]}

(***************************************************************************)
(* State                                                                   *)
(***************************************************************************)
NoOptions == Options(FALSE, FALSE, 0)

NoCall ==
  [op |-> "none", id |-> "none", post |-> NoPost, source |-> "none",
   options |-> NoOptions, outcome |-> NoOutcome, changed |-> FALSE]

IdleWriter ==
  [pc |-> "idle", id |-> "none", post |-> NoPost, source |-> "none",
   options |-> NoOptions, attempt |-> 0, existing |-> NoMeta]

NoHistory ==
  [accepted |-> 0, versions |-> {}, duplicate |-> FALSE, staleAccept |-> FALSE,
   raised |-> FALSE, concurrentUpdate |-> FALSE]

\* the processes that run hydrateArticleContent
Workers == {"h1", "h2"}

\* content_backfill_state: the row of job 'article-content-v1'
NoCheckpoint ==
  [exists |-> FALSE, cursor_created_at |-> "null", cursor_id |-> "null",
   processed_count |-> 0]

\* the parameters of hydrateArticleContent; ids = {} stands for no ids
NoParams ==
  [ids |-> {}, limit |-> 0, force |-> FALSE, dry_run |-> FALSE,
   max_attempts |-> 0, backfill |-> FALSE]

\* what is known of the run a worker made just before the current one, with
\* no write to the table since: its parameters, and whether it selected
\* rows and all of them ended 'hydrated'
NoPrev ==
  [params |-> NoParams, ids |-> {}, allHydrated |-> FALSE, crashed |-> FALSE,
   committed |-> {}]

\* a worker's position in hydrateArticleContent and its locals.  pc: idle,
\* claim (the filter of l.181, at candidate j), fetch, process (the loop of
\* l.186, at claimed candidate i), done (returned), raised (threw).
\* writes holds, for each element of rows, the skippedReason of the
\* upsertPost that produced it ("none" when there was no such call).
IdleRun ==
  [pc |-> "idle", params |-> NoParams, candidates |-> <<>>, claimed |-> <<>>,
   fetched |-> [id \in AllIds |-> NoPost], j |-> 0, i |-> 0, rows |-> <<>>,
   writes |-> <<>>, prev |-> NoPrev]

\* the rows of posts that listLocalContent reads, by id: created_at,
\* content_status and the length of the whitespace-normalized content_text
LibOrder == <<"p1", "p2", "p3">>
LibIds == {LibOrder[n] : n \in 1..Len(LibOrder)}
NoLibrary == [id \in LibIds |-> [created_at |-> "t1", content_status |-> "new", chars |-> 0]]

\* the rows searchLocalContent reads, in the order of their bm25 rank for
\* the query: whether posts_fts matches the query, the tags of the row and
\* its content_status
SearchRows == 32
RowNumbers == 1..SearchRows
NoCatalog == [n \in RowNumbers |-> [matches |-> FALSE, tags |-> {}, content_status |-> "new"]]

\* the last call of searchLocalContent and its result.data
NoSearchParams ==
  [tag |-> "none", content_status |-> "none", limit |-> 0, include_full_content |-> FALSE]
NoFound == [params |-> NoSearchParams, data |-> <<>>, called |-> FALSE]

\* the last call of tagPost, tagPosts or untagPost: its arguments and
\* whether the statement raised (FOREIGN KEY constraint failed)
NoTagCall == [op |-> "none", ids |-> {}, tag |-> "none", raised |-> FALSE]

\* the last call of upsertPosts: its posts, each with its id and with
\* whether its statement raises (a NOT NULL column without value, a database
\* error), and whether the call raised
NoBatch == [posts |-> <<>>, source |-> "none", raised |-> FALSE]

\* no canonicalizePost call yet
NoCanon == [called |-> FALSE, post |-> NoPost, source |-> "manual", normalized |-> Canonical[BlankTweet, "manual"]]

\* the tokens.json an authorization leaves and a process that has made no
\* call yet; a token is written as the time it expires at
TokenLife == 2
NoClient == [built |-> FALSE, expires_at |-> 0]
NoAuthCall == [called |-> FALSE, at |-> 0, expired |-> FALSE, client |-> NoClient]
Authorized(refreshable) ==
  [now |-> 0, stored |-> [expires_at |-> TokenLife, refresh_token |-> refreshable],
   userClient |-> NoClient, call |-> NoAuthCall]

\* no sync_bookmarks run yet
NoSyncParams ==
  [max_pages |-> 1, stop_on_overlap |-> TRUE, stop_before |-> FALSE,
   force_full_scan |-> FALSE]
IdleSync ==
  [pc |-> "idle", params |-> NoSyncParams, before |-> {}, allPosts |-> {}, known |-> FALSE,
   pages |-> 0, stopReason |-> "none", overlapDetected |-> FALSE, has_more |-> FALSE]

\* the caller of the list_local_content tool: the parameters it keeps
\* fixed, the cursor and has_more of the last response, the ids it has
\* received, the last page and its truncated flag
NoListParams ==
  [limit |-> 0, content_status |-> "none", include_full_content |-> FALSE,
   max_total_chars |-> 0]
\* no cursor: the token is undefined or ''
NoListCursor == [base64url |-> <<>>]
IdlePager ==
  [pc |-> "idle", params |-> NoListParams, cursor |-> NoListCursor, has_more |-> FALSE,
   seen |-> <<>>, page |-> <<>>, truncated |-> FALSE, calls |-> 0]

Init ==
  /\ posts = [id \in AllIds |-> NoRow]
  /\ last = NoCall
  /\ writers = [w \in Writers |-> IdleWriter]
  /\ history = [id \in AllIds |-> NoHistory]
  /\ runs = [w \in Workers |-> IdleRun]
  /\ checkpoint = NoCheckpoint
  /\ due = [id \in AllIds |-> FALSE]
  /\ library = NoLibrary
  /\ pager = IdlePager
  /\ catalog = NoCatalog
  /\ found = NoFound
  /\ tags = {}
  /\ tagCall = NoTagCall
  /\ batch = NoBatch
  /\ sync = IdleSync
  /\ auth = Authorized(TRUE)
  /\ canon = NoCanon

\* bookkeeping of the calls that have returned: how many updates returned
\* contentAccepted = true, the versions they returned, whether one of them
\* was decided on content that was no longer the stored one, whether a call
\* raised, whether a call gave up with 'concurrent_update'
Record(h, outcome, wasUpdate, basedOnCurrent) ==
  IF ~outcome.contentAccepted
  THEN [h EXCEPT !.raised = @ \/ outcome.raised,
                 !.concurrentUpdate = @ \/ outcome.skippedReason = "concurrent_update"]
  ELSE [h EXCEPT !.accepted = IF wasUpdate THEN @ + 1 ELSE @,
                 !.versions = @ \cup {outcome.contentVersion},
                 !.duplicate = @ \/ outcome.contentVersion \in h.versions,
                 !.staleAccept = @ \/ ~basedOnCurrent]

(***************************************************************************)
(* Calls that run to completion with no other writer in between            *)
(***************************************************************************)
UpsertPost(id, post, source, options) ==
  LET row == posts[id]
      outcome == upsertPostOutcome(row, post, source, options)
  IN  /\ outcome.contentVersion <= MaxVersion
      /\ posts' = [posts EXCEPT ![id] = upsertPostRow(row, post, source, options)]
      /\ last' = [op |-> "upsertPost", id |-> id, post |-> post, source |-> source,
                  options |-> options, outcome |-> outcome, changed |-> FALSE]
      /\ history' = [history EXCEPT ![id] = Record(@, outcome, row.exists, TRUE)]
      /\ UNCHANGED <<writers, hydration, tools>>

MarkHydrationFetching(id, version) ==
  LET row == posts[id]
  IN  /\ row.attempt_count < MaxAttempts
      /\ posts' = [posts EXCEPT ![id] = markHydrationFetchingRow(row, version)]
      /\ last' = [NoCall EXCEPT !.op = "markHydrationFetching", !.id = id,
                                !.changed = FetchingMatches(row, version)]
      /\ UNCHANGED <<writers, history, hydration, tools>>

MarkHydrationFailure(id, expectedVersion, args) ==
  LET row == posts[id]
  IN  /\ posts' = [posts EXCEPT ![id] =
                     markHydrationFailureRow(row, expectedVersion, args.nextStatus,
                                             args.errorCode, args.nextRetryAt)]
      /\ last' = [NoCall EXCEPT !.op = "markHydrationFailure", !.id = id,
                                !.changed = FailureMatches(row, expectedVersion)]
      /\ UNCHANGED <<writers, history, hydration, tools>>

Marks ==
  \E id \in Ids :
    \/ \E v \in {posts[id].content_version, posts[id].content_version + 1} :
         MarkHydrationFetching(id, v)
    \/ \E v \in {posts[id].content_version, posts[id].content_version + 1}, a \in FailureArgs :
         MarkHydrationFailure(id, v, a)

Next ==
  \/ \E id \in Ids, post \in Payloads, source \in Sources :
       \E options \in OptionsFor(posts[id].content_version) :
         UpsertPost(id, post, source, options)
  \/ \E id \in Ids, post \in {ArticleFull, PlainTweet} :
       UpsertPost(id, post, "hydration", StaleOptions(posts[id].content_version))
  \/ Marks

Spec == Init /\ [][Next]_vars

(***************************************************************************)
(* upsertPost statement by statement: writers of different processes       *)
(* share the database file, and each prepared statement is one atomic      *)
(* step.  pc: idle, select (loop head), insert, update, latest.            *)
(***************************************************************************)
ConcPayloads == {ArticleStub, ArticleLinkBody, ArticleFull}

\* the two callers of the program: bookmark ingestion (upsertPosts), and
\* the hydration worker pinned to the version v it has read
ConcCallers(v) ==
  {[source |-> "bookmark", options |-> Options(FALSE, FALSE, 0)],
   [source |-> "hydration", options |-> Options(FALSE, TRUE, v)]}

Call(w, id, post, source, options) ==
  /\ writers[w].pc = "idle"
  /\ writers' = [writers EXCEPT ![w] =
                   [pc |-> "select", id |-> id, post |-> post, source |-> source,
                    options |-> options, attempt |-> 0, existing |-> NoMeta]]
  /\ UNCHANGED <<posts, last, history, hydration, tools>>

\* const existing = selectMetaStmt.get(post.id), and the version check
Select(w) ==
  LET me == writers[w]
      existing == SELECT_META_SQL(posts[me.id])
      mismatch == Outcome(FALSE, existing.content_version, existing.content_status,
                          "version_mismatch", FALSE)
  IN  /\ me.pc = "select"
      /\ IF ~existing.exists
         THEN /\ writers' = [writers EXCEPT ![w] = [me EXCEPT !.pc = "insert"]]
              /\ UNCHANGED history
         ELSE IF VersionMismatch(existing, me.options)
         THEN /\ writers' = [writers EXCEPT ![w] = IdleWriter]
              /\ history' = [history EXCEPT ![me.id] = Record(@, mismatch, TRUE, TRUE)]
         ELSE /\ writers' = [writers EXCEPT ![w] =
                               [me EXCEPT !.pc = "update", !.existing = existing]]
              /\ UNCHANGED history
      /\ UNCHANGED <<posts, last, hydration, tools>>

\* insertStmt.run(...): id is the PRIMARY KEY, a second INSERT of the same
\* id raises SQLITE_CONSTRAINT_PRIMARYKEY, which upsertPost does not catch
InsertRaises(row) == row.exists

Insert(w) ==
  LET me == writers[w]
      normalized == Canonical[me.post, me.source]
      outcome == IF InsertRaises(posts[me.id])
                 THEN Outcome(FALSE, 0, "none", "none", TRUE)
                 ELSE Outcome(TRUE, 1, normalized.contentStatus, "none", FALSE)
  IN  /\ me.pc = "insert"
      /\ posts' = IF InsertRaises(posts[me.id]) THEN posts
                  ELSE [posts EXCEPT ![me.id] =
                          INSERT_POST_SQL(me.post, me.source, normalized)]
      /\ writers' = [writers EXCEPT ![w] = IdleWriter]
      /\ history' = [history EXCEPT ![me.id] = Record(@, outcome, FALSE, TRUE)]
      /\ UNCHANGED <<last, hydration, tools>>

\* updateStmt.run(...) and the test of result.changes
Update(w) ==
  LET me == writers[w]
      row == posts[me.id]
      normalized == Canonical[me.post, me.source]
      acceptContent == shouldAcceptContent(me.existing, normalized, me.options.forceContent)
      params == UpdateParams(me.existing, me.post, me.source, normalized, acceptContent)
      outcome == Outcome(acceptContent, params.content_version, params.content_status,
                         "none", FALSE)
  IN  /\ me.pc = "update"
      /\ params.content_version <= MaxVersion
      /\ IF UpdateMatches(row, params)
         THEN /\ posts' = [posts EXCEPT ![me.id] = UPDATE_POST_SQL(row, params)]
              /\ writers' = [writers EXCEPT ![w] = IdleWriter]
              /\ history' = [history EXCEPT ![me.id] =
                               Record(@, outcome, TRUE,
                                      me.existing.content_hash = row.content_hash)]
         ELSE /\ writers' = [writers EXCEPT ![w] =
                               [me EXCEPT !.attempt = me.attempt + 1,
                                          !.existing = NoMeta,
                                          !.pc = IF me.attempt + 1 < 2 THEN "select"
                                                 ELSE "latest"]]
              /\ UNCHANGED <<posts, history>>
      /\ UNCHANGED <<last, hydration, tools>>

\* const latest = selectMetaStmt.get(post.id) after two failed cycles
Latest(w) ==
  LET me == writers[w]
      latest == SELECT_META_SQL(posts[me.id])
      outcome == Outcome(FALSE,
                         IF latest.exists THEN latest.content_version ELSE 0,
                         IF latest.exists THEN latest.content_status ELSE "pending",
                         "concurrent_update", FALSE)
  IN  /\ me.pc = "latest"
      /\ writers' = [writers EXCEPT ![w] = IdleWriter]
      /\ history' = [history EXCEPT ![me.id] = Record(@, outcome, TRUE, TRUE)]
      /\ UNCHANGED <<posts, last, hydration, tools>>

NextConc ==
  \/ \E w \in Writers, id \in Ids, post \in ConcPayloads :
       \E c \in ConcCallers(posts[id].content_version) :
         Call(w, id, post, c.source, c.options)
  \/ \E w \in Writers : Select(w)
  \/ \E w \in Writers : Insert(w)
  \/ \E w \in Writers : Update(w)
  \/ \E w \in Writers : Latest(w)

SpecConc == Init /\ [][NextConc]_vars

\* One upsertPost observed statement by statement, while complete calls of
\* upsertPost, markHydrationFetching and markHydrationFailure run between
\* its statements.
Observed == "w1"

NextStore ==
  \/ \E id \in Ids, post \in ConcPayloads :
       \E c \in ConcCallers(posts[id].content_version) :
         \/ Call(Observed, id, post, c.source, c.options)
         \/ UpsertPost(id, post, c.source, c.options)
  \/ Select(Observed)
  \/ Insert(Observed)
  \/ Update(Observed)
  \/ Latest(Observed)
  \/ Marks

SpecStore == Init /\ [][NextStore]_vars

(***************************************************************************)
(* The hydration service (services/content-hydration.ts) and the queries   *)
(* of the store it runs on                                                 *)
(***************************************************************************)
\* bound of the model: no row is claimed more often than this
MaxClaims == 2

Pos(id) == CHOOSE n \in 1..Len(IdOrder) : IdOrder[n] = id

\* posts.created_at: the timestamp of the post, the same in every payload
\* of one id; "t1" < "t2"
TimeOrder == <<"t1", "t2">>
TimePos(t) == CHOOSE n \in 1..Len(TimeOrder) : TimeOrder[n] = t
CreatedAt(id) == TimeOrder[Pos(id)]

NoCursor == [created_at |-> "null", id |-> "null"]

\* (created_at > ? OR (created_at = ? AND id > ?))
AfterCursor(id, cursor) ==
  \/ TimePos(CreatedAt(id)) > TimePos(cursor.created_at)
  \/ /\ CreatedAt(id) = cursor.created_at
     /\ Pos(id) > Pos(cursor.id)

\* a row of the result of getHydrationCandidates
Candidate(id, row) ==
  [id |-> id, content_status |-> row.content_status,
   content_version |-> row.content_version, attempt_count |-> row.attempt_count,
   next_retry_at |-> row.next_retry_at, created_at |-> CreatedAt(id)]

\* elapsed[id]: the row's next_retry_at <= now
getHydrationCandidates(table, elapsed, params, cursor) ==
  LET byIds(id) ==
        id \in params.ids /\ table[id].exists /\ table[id].type = "article"
      eligible(id) ==
        /\ table[id].exists
        /\ table[id].content_status \in RETRYABLE_STATUSES
        /\ table[id].type = "article"
        /\ params.force \/ table[id].next_retry_at = "null" \/ elapsed[id]
        /\ cursor = NoCursor \/ AfterCursor(id, cursor)
      chosen == IF params.ids # {} THEN SelectSeq(IdOrder, byIds)
                ELSE SelectSeq(IdOrder, eligible)
  IN  [n \in 1..Min(params.limit, Len(chosen)) |-> Candidate(chosen[n], table[chosen[n]])]

\* the cursor resolveCandidates passes on
resolveCursor(params, saved) ==
  IF params.ids = {} /\ params.backfill /\ saved.exists
     /\ saved.cursor_created_at # "null" /\ saved.cursor_id # "null"
  THEN [created_at |-> saved.cursor_created_at, id |-> saved.cursor_id]
  ELSE NoCursor

getContentMetaById(row) ==
  [content_version |-> row.content_version, content_status |-> row.content_status]

\* INSERT ... ON CONFLICT(job_name) DO UPDATE
updateBackfillCheckpoint(saved, cursorCreatedAt, cursorId, processedIncrement) ==
  [exists |-> TRUE, cursor_created_at |-> cursorCreatedAt, cursor_id |-> cursorId,
   processed_count |-> saved.processed_count + processedIncrement]

\* classifyError, by what the message of the error speaks of
classifyError(message) ==
  IF message = "rate limit" THEN [code |-> "RATE_LIMITED", retryable |-> TRUE]
  ELSE IF message = "timeout" THEN [code |-> "TIMEOUT", retryable |-> TRUE]
  ELSE IF message = "not found" THEN [code |-> "NOT_FOUND", retryable |-> FALSE]
  ELSE IF message = "unauthorized" THEN [code |-> "UNAUTHORIZED", retryable |-> FALSE]
  ELSE IF message = "parse" THEN [code |-> "PARSE_ERROR", retryable |-> TRUE]
  ELSE [code |-> "UNKNOWN", retryable |-> TRUE]

\* a timestamp some hours after now
nextRetryAt(attemptCount) == "later"

\* variant: the dry_run parameter is not looked at
IsDryRun_Never(params) == FALSE

\* const dryRun = params.dry_run ?? false
IsDryRun(params) == params.dry_run

\* variant: terminal only after maxAttempts is exceeded
IsTerminal_Late(attempt, maxAttempts) == attempt > maxAttempts

\* const terminal = attempt >= maxAttempts
IsTerminal(attempt, maxAttempts) == attempt >= maxAttempts

\* an element of HydrationRunResult.rows; error_code "none" when not set
RowOutcome(id, old, new, version, code) ==
  [id |-> id, old_status |-> old, new_status |-> new, content_version |-> version,
   error_code |-> code]

\* the rows of a dry run
dryRunRows(candidates) ==
  [n \in 1..Len(candidates) |->
     RowOutcome(candidates[n].id, candidates[n].content_status,
                candidates[n].content_status, candidates[n].content_version, "none")]

\* the counter of the result that aggregate adds a row to
CountedAs(row) ==
  IF row.new_status = "hydrated" THEN "hydrated"
  ELSE IF row.new_status = "partial" THEN "partial"
  ELSE IF row.new_status = "failed" THEN "failed"
  ELSE IF row.new_status = "missing" THEN "missing"
  ELSE IF row.new_status = row.old_status THEN "skipped"
  ELSE "none"

aggregate(rows, dryRun) ==
  LET count(c) == Cardinality({n \in 1..Len(rows) : CountedAs(rows[n]) = c})
  IN  [processed |-> Len(rows), hydrated |-> count("hydrated"),
       partial |-> count("partial"), failed |-> count("failed"),
       missing |-> count("missing"), skipped |-> count("skipped"),
       dry_run |-> dryRun]

SeqIds(cs) == {cs[n].id : n \in 1..Len(cs)}

\* the payloads a fetch returns for an id; NoPost: the fetch is unresolved
FetchResults == {NoPost, ArticleStub, ArticleFull}

\* the statements of one iteration that raise a database error
FaultPatterns == {{}, {"upsert"}, {"upsert", "mark"}}

\* resolveCandidates, the empty and the dry-run return
StartRun(w, params) ==
  LET me == runs[w]
      cursor == resolveCursor(params, checkpoint)
      candidates == getHydrationCandidates(posts, due, params, cursor)
      started == [me EXCEPT !.params = params, !.candidates = candidates,
                            !.j = 1, !.i = 1]
  IN  /\ me.pc = "idle"
      /\ runs' = [runs EXCEPT ![w] =
                    IF candidates = <<>> THEN [started EXCEPT !.pc = "done"]
                    ELSE IF IsDryRun(params)
                    THEN [started EXCEPT !.pc = "done",
                                         !.rows = dryRunRows(candidates),
                                         !.writes = [n \in 1..Len(candidates) |-> "none"]]
                    ELSE [started EXCEPT !.pc = "claim"]]
      /\ UNCHANGED <<posts, last, writers, history, checkpoint, due, tools>>

\* candidates.filter((candidate) => markHydrationFetching(candidate)), one
\* candidate at a time
Claim(w) ==
  LET me == runs[w]
      c == me.candidates[me.j]
      row == posts[c.id]
      won == FetchingMatches(row, c.content_version)
  IN  /\ me.pc = "claim"
      /\ row.attempt_count < MaxClaims
      /\ posts' = [posts EXCEPT ![c.id] = markHydrationFetchingRow(row, c.content_version)]
      /\ runs' = [runs EXCEPT ![w] =
                    [me EXCEPT !.claimed = IF won THEN Append(@, c) ELSE @,
                               !.j = @ + 1,
                               !.pc = IF me.j = Len(me.candidates) THEN "fetch" ELSE "claim"]]
      /\ UNCHANGED <<last, writers, history, checkpoint, due, tools>>

\* fetchPostsWithFallback: every claimed id ends with a payload or unresolved
Fetch(w) ==
  LET me == runs[w]
  IN  /\ me.pc = "fetch"
      /\ \E fetched \in [AllIds -> FetchResults] :
           /\ \A id \in AllIds \ SeqIds(me.claimed) : fetched[id] = NoPost
           /\ runs' = [runs EXCEPT ![w] = [me EXCEPT !.fetched = fetched, !.pc = "process"]]
      /\ UNCHANGED <<posts, last, writers, history, checkpoint, due, tools>>

\* one iteration of the loop over claimed (l.186-255)
Process(w, faults) ==
  LET me == runs[w]
      c == me.claimed[me.i]
      row == posts[c.id]
      fetchedPost == me.fetched[c.id]
      attempt == c.attempt_count + 1
      options == Options(me.params.force, TRUE, c.content_version)
      outcome == upsertPostOutcome(row, fetchedPost, "hydration", options)
      classified == classifyError("database is locked")
      marks == fetchedPost = NoPost \/ "upsert" \in faults
      terminal ==
        IF fetchedPost = NoPost THEN IsTerminal(attempt, me.params.max_attempts)
        ELSE ~classified.retryable \/ IsTerminal(attempt, me.params.max_attempts)
      nextStatus == IF terminal THEN "missing" ELSE "failed"
      errorCode ==
        IF fetchedPost = NoPost
        THEN IF terminal THEN "NOT_FOUND" ELSE "RETRY_MISSING"
        ELSE classified.code
      retryAt == IF terminal THEN "null" ELSE nextRetryAt(attempt)
      after ==
        IF marks
        THEN markHydrationFailureRow(row, c.content_version, nextStatus, errorCode, retryAt)
        ELSE upsertPostRow(row, fetchedPost, "hydration", options)
      currentMeta == getContentMetaById(after)
      pushed ==
        IF marks
        THEN RowOutcome(c.id, c.content_status, nextStatus, c.content_version, errorCode)
        ELSE RowOutcome(c.id, c.content_status, currentMeta.content_status,
                        currentMeta.content_version, "none")
  IN  /\ me.pc = "process"
      /\ me.i <= Len(me.claimed)
      /\ IF marks THEN TRUE ELSE outcome.contentVersion <= MaxVersion
      /\ IF marks /\ "mark" \in faults
         THEN /\ runs' = [runs EXCEPT ![w] = [me EXCEPT !.pc = "raised"]]
              /\ UNCHANGED <<posts, checkpoint, due>>
         ELSE /\ posts' = [posts EXCEPT ![c.id] = after]
              /\ runs' = [runs EXCEPT ![w] =
                            [me EXCEPT !.rows = Append(@, pushed),
                                       !.writes = Append(@, IF marks THEN "none"
                                                            ELSE outcome.skippedReason),
                                       !.i = @ + 1]]
              /\ checkpoint' =
                   IF me.params.backfill /\ fetchedPost # NoPost
                   THEN updateBackfillCheckpoint(checkpoint, c.created_at, c.id, 1)
                   ELSE checkpoint
              /\ due' = IF marks /\ FailureMatches(row, c.content_version) /\ ~terminal
                        THEN [due EXCEPT ![c.id] = FALSE] ELSE due
      /\ UNCHANGED <<last, writers, history, tools>>

\* the rows of the candidates that were not claimed, and the return
Finish(w) ==
  LET me == runs[w]
      skipped == SelectSeq(me.candidates, LAMBDA c : c.id \notin SeqIds(me.claimed))
      tail == [n \in 1..Len(skipped) |->
                 RowOutcome(skipped[n].id, skipped[n].content_status,
                            skipped[n].content_status, skipped[n].content_version,
                            "CONCURRENT_UPDATE")]
  IN  /\ me.pc = "process"
      /\ me.i > Len(me.claimed)
      /\ runs' = [runs EXCEPT ![w] =
                    [me EXCEPT !.rows = @ \o tail,
                               !.writes = @ \o [n \in 1..Len(skipped) |-> "none"],
                               !.pc = "done"]]
      /\ UNCHANGED <<posts, last, writers, history, checkpoint, due, tools>>

\* the caller has the result (or the exception); the worker is free again
Return(w) ==
  LET me == runs[w]
      allHydrated ==
        /\ me.pc = "done" /\ me.candidates # <<>>
        /\ \A id \in SeqIds(me.candidates) : posts[id].content_status = "hydrated"
  IN  /\ me.pc \in {"done", "raised"}
      /\ runs' = [runs EXCEPT ![w] =
                    [IdleRun EXCEPT !.prev = [params |-> me.params,
                                              ids |-> SeqIds(me.candidates),
                                              allHydrated |-> allHydrated,
                                              crashed |-> FALSE,
                                              committed |-> {}]]]
      /\ UNCHANGED <<posts, last, writers, history, checkpoint, due, tools>>

\* the process dies in the middle of the batch: what the run has written
\* stays, its locals are lost
Crash(w) ==
  LET me == runs[w]
      reached == IF me.pc = "process" THEN me.i - 1 ELSE 0
  IN  /\ me.pc \in {"claim", "fetch", "process"}
      /\ runs' = [runs EXCEPT ![w] =
                    [IdleRun EXCEPT !.prev = [params |-> me.params,
                                              ids |-> SeqIds(me.candidates),
                                              allHydrated |-> FALSE,
                                              crashed |-> TRUE,
                                              committed |->
                                                {me.claimed[n].id : n \in 1..reached}]]]
      /\ UNCHANGED <<posts, last, writers, history, checkpoint, due, tools>>

\* the clock passes the next_retry_at of a row
TimePasses(id) ==
  /\ posts[id].next_retry_at # "null"
  /\ ~due[id]
  /\ due' = [due EXCEPT ![id] = TRUE]
  /\ runs' = [w \in Workers |-> [runs[w] EXCEPT !.prev = NoPrev]]
  /\ UNCHANGED <<posts, last, writers, history, checkpoint, tools>>

\* upsertPosts(posts, source) with one post: a complete upsertPost of an
\* ingestion path
Ingest(id, post, source) ==
  LET row == posts[id]
      outcome == upsertPostOutcome(row, post, source, NoOptions)
  IN  /\ outcome.contentVersion <= MaxVersion
      /\ posts' = [posts EXCEPT ![id] = upsertPostRow(row, post, source, NoOptions)]
      /\ runs' = [w \in Workers |-> [runs[w] EXCEPT !.prev = NoPrev]]
      /\ UNCHANGED <<last, writers, history, checkpoint, due, tools>>

\* the parameters of the runs: the scheduled run, the backfill run, the
\* forced run on explicit ids, and the dry runs
Scheduled(maxAttempts) ==
  [ids |-> {}, limit |-> 2, force |-> FALSE, dry_run |-> FALSE,
   max_attempts |-> maxAttempts, backfill |-> FALSE]

RunParams ==
  {Scheduled(1), Scheduled(2),
   [Scheduled(2) EXCEPT !.limit = 1],
   [Scheduled(2) EXCEPT !.backfill = TRUE],
   [Scheduled(2) EXCEPT !.ids = AllIds, !.force = TRUE],
   [Scheduled(2) EXCEPT !.dry_run = TRUE, !.backfill = TRUE],
   [Scheduled(2) EXCEPT !.ids = AllIds, !.dry_run = TRUE],
   [Scheduled(2) EXCEPT !.ids = {IdOrder[1]}, !.backfill = TRUE],
   [Scheduled(2) EXCEPT !.backfill = TRUE, !.force = TRUE]}

\* One worker; ingestion stores the list payloads of new posts between its
\* runs, and nothing else writes to the table.
Runner == "h1"

SeedPayloads(id) == IF id = IdOrder[1] THEN {ArticleStub, ArticleFull} ELSE {ArticleStub}

NextRun ==
  \/ /\ runs[Runner].pc = "idle"
     /\ \E id \in AllIds :
          /\ ~posts[id].exists
          /\ \E post \in SeedPayloads(id) : Ingest(id, post, "bookmark")
  \/ /\ runs[Runner].pc = "idle"
     /\ \E id \in AllIds : TimePasses(id)
  \/ \E params \in RunParams : StartRun(Runner, params)
  \/ Claim(Runner)
  \/ Fetch(Runner)
  \/ \E faults \in FaultPatterns : Process(Runner, faults)
  \/ Finish(Runner)
  \/ Return(Runner)
  \/ Crash(Runner)

SpecRun == Init /\ [][NextRun]_vars

\* Two workers on one row, and ingestion writing to it at any moment.
WorkerParams == {[Scheduled(2) EXCEPT !.limit = 1]}

NextWorkers ==
  \/ \E id \in Ids, post \in ConcPayloads : Ingest(id, post, "bookmark")
  \/ \E w \in Workers, params \in WorkerParams : StartRun(w, params)
  \/ \E w \in Workers : Claim(w)
  \/ \E w \in Workers : Fetch(w)
  \/ \E w \in Workers : Process(w, {})
  \/ \E w \in Workers : Finish(w)
  \/ \E w \in Workers : Return(w)

SpecWorkers == Init /\ [][NextWorkers]_vars

\* Two workers on one row, the clock, and a bookmark ingestion whose
\* upsertPost runs statement by statement between the workers' statements.
NextPipeline ==
  \/ \E w \in Workers, params \in WorkerParams : StartRun(w, params)
  \/ \E w \in Workers : Claim(w)
  \/ \E w \in Workers : Fetch(w)
  \/ \E w \in Workers : Process(w, {})
  \/ \E w \in Workers : Finish(w)
  \/ \E w \in Workers : Return(w)
  \/ \E id \in Ids : TimePasses(id)
  \/ \E id \in Ids, post \in {ArticleLinkBody, ArticleFull} :
       Call(Observed, id, post, "bookmark", NoOptions)
  \/ Select(Observed)
  \/ Insert(Observed)
  \/ Update(Observed)
  \/ Latest(Observed)

SpecPipeline == Init /\ [][NextPipeline]_vars

(***************************************************************************)
(* The list_local_content tool (tools/list-local-content.ts) over          *)
(* listLocalContent of the store.  A text is the sequence of its pieces;   *)
(* "::" is the piece the cursor is joined with.                            *)
(***************************************************************************)
\* bounds of the model: lengths of the stored texts, the caps on the
\* returned characters, and the calls one caller makes
TextLengths == {0, 2, 5}
TotalCaps == {4, 6}
MaxCalls == 4

\* posts.created_at as stored: post.timestamp, '' when the API gave none
\* (parsers/tweet.ts l.73); '' < 't1' < 't2' as SQLite compares text
StampOrder == <<"", "t1", "t2">>
StampRank(t) == CHOOSE n \in 1..Len(StampOrder) : StampOrder[n] = t
LibRank(id) == CHOOSE n \in 1..Len(LibOrder) : LibOrder[n] = id

\* the pieces of a stored string
Pieces(str) == IF str = "" THEN <<>> ELSE <<str>>

\* `${createdAt}::${id}`, base64url-encoded
encodeCursor(createdAt, id) ==
  [base64url |-> Pieces(createdAt) \o <<"::">> \o Pieces(id)]

\* decoded.split('::')
RECURSIVE SplitCursor(_)
SplitCursor(text) ==
  IF \A n \in 1..Len(text) : text[n] # "::" THEN <<text>>
  ELSE LET k == CHOOSE n \in 1..Len(text) :
                  text[n] = "::" /\ \A m \in 1..(n - 1) : text[m] # "::"
       IN  <<SubSeq(text, 1, k - 1)>> \o SplitCursor(SubSeq(text, k + 1, Len(text)))

\* decodeCursor; NoDecoded stands for null: no cursor, or an empty part
NoDecoded == [created_at |-> <<>>, id |-> <<>>]
decodeCursor(cursor) ==
  IF cursor = NoListCursor THEN NoDecoded
  ELSE LET parts == SplitCursor(cursor.base64url)
       IN  IF Len(parts) < 2 THEN NoDecoded
           ELSE IF parts[1] = <<>> \/ parts[2] = <<>> THEN NoDecoded
           ELSE [created_at |-> parts[1], id |-> parts[2]]

\* (p.created_at < ? OR (p.created_at = ? AND p.id < ?))
BeforeCursor(table, id, decoded) ==
  \/ StampRank(table[id].created_at) < StampRank(decoded.created_at[1])
  \/ /\ Pieces(table[id].created_at) = decoded.created_at
     /\ LibRank(id) < LibRank(decoded.id[1])

\* the conditions of the filters
MatchesFilters(table, id, params) ==
  params.content_status = "none" \/ table[id].content_status = params.content_status

\* id1 comes before id2 in ORDER BY p.created_at DESC, p.id DESC
ListedBefore(table, id1, id2) ==
  \/ StampRank(table[id1].created_at) > StampRank(table[id2].created_at)
  \/ /\ table[id1].created_at = table[id2].created_at
     /\ LibRank(id1) > LibRank(id2)

RECURSIVE OrderDesc(_, _)
OrderDesc(table, S) ==
  IF S = {} THEN <<>>
  ELSE LET first == CHOOSE id \in S : \A other \in S \ {id} : ListedBefore(table, id, other)
       IN  <<first>> \o OrderDesc(table, S \ {first})

\* listLocalContent of the store: the page, its cursor and has_more
listLocalContentFromDb(table, params, cursor) ==
  LET limit == Max(1, Min(params.limit, IF params.include_full_content THEN 30 ELSE 100))
      decodedCursor == decodeCursor(cursor)
      selected == {id \in LibIds :
                     /\ MatchesFilters(table, id, params)
                     /\ IF decodedCursor = NoDecoded THEN TRUE
                        ELSE BeforeCursor(table, id, decodedCursor)}
      ordered == OrderDesc(table, selected)
      rows == SubSeq(ordered, 1, Min(limit + 1, Len(ordered)))
      hasMore == Len(rows) > limit
      pageRows == IF hasMore THEN SubSeq(rows, 1, limit) ELSE rows
      lastRow == pageRows[Len(pageRows)]
  IN  [data |-> pageRows,
       cursor |-> IF hasMore /\ Len(pageRows) > 0
                  THEN encodeCursor(table[lastRow].created_at, lastRow)
                  ELSE NoListCursor,
       has_more |-> hasMore]

\* variant: the budget that is left stays after a text was cut
RECURSIVE CapTexts_KeepsBudget(_, _)
CapTexts_KeepsBudget(lengths, remaining) ==
  IF lengths = <<>> THEN <<>>
  ELSE LET text == Head(lengths)
       IN  IF text = 0 THEN <<0>> \o CapTexts_KeepsBudget(Tail(lengths), remaining)
           ELSE IF text <= remaining
           THEN <<text>> \o CapTexts_KeepsBudget(Tail(lengths), remaining - text)
           ELSE <<IF remaining > 0 THEN remaining + 3 ELSE 0>>
                \o CapTexts_KeepsBudget(Tail(lengths), remaining)

\* the loop of the tool over result.data: the lengths of the content_text
\* values it returns, given the lengths of the full texts; a text cut to
\* its first remaining characters is returned with '...' appended
RECURSIVE CapTexts(_, _)
CapTexts(lengths, remaining) ==
  IF lengths = <<>> THEN <<>>
  ELSE LET text == Head(lengths)
       IN  IF text = 0 THEN <<0>> \o CapTexts(Tail(lengths), remaining)
           ELSE IF text <= remaining
           THEN <<text>> \o CapTexts(Tail(lengths), remaining - text)
           ELSE <<IF remaining > 0 THEN remaining + 3 ELSE 0>>
                \o CapTexts(Tail(lengths), 0)

\* truncated = true was set in the loop
RECURSIVE SetsTruncated(_, _)
SetsTruncated(lengths, remaining) ==
  IF lengths = <<>> THEN FALSE
  ELSE LET text == Head(lengths)
       IN  IF text = 0 THEN SetsTruncated(Tail(lengths), remaining)
           ELSE IF text <= remaining THEN SetsTruncated(Tail(lengths), remaining - text)
           ELSE TRUE

RECURSIVE SumSeq(_)
SumSeq(q) == IF q = <<>> THEN 0 ELSE Head(q) + SumSeq(Tail(q))

\* one call of the tool and what the caller keeps of the response
ListCall(params, cursor) ==
  LET result == listLocalContentFromDb(library, params, cursor)
      full == [n \in 1..Len(result.data) |-> library[result.data[n]].chars]
      returned == IF params.include_full_content
                  THEN CapTexts(full, params.max_total_chars) ELSE full
      truncated == params.include_full_content
                   /\ SetsTruncated(full, params.max_total_chars)
  IN  /\ pager' = [pc |-> IF result.has_more THEN "paging" ELSE "finished",
                   params |-> params, cursor |-> result.cursor,
                   has_more |-> result.has_more,
                   seen |-> pager.seen \o result.data,
                   page |-> [n \in 1..Len(full) |->
                               [id |-> result.data[n], full |-> full[n],
                                content_text |-> returned[n]]],
                   truncated |-> truncated, calls |-> pager.calls + 1]
      /\ UNCHANGED <<posts, last, writers, history, hydration, library, searching, tagging, batch, sync, auth, canon>>

\* the first page
ListFirst(params) ==
  /\ pager.pc = "idle"
  /\ ListCall(params, NoListCursor)

\* the next page, with the cursor of the last response
ListNext ==
  /\ pager.pc = "paging"
  /\ pager.calls < MaxCalls
  /\ ListCall(pager.params, pager.cursor)

\* the caller starts over
ListReset ==
  /\ pager.pc = "finished"
  /\ pager' = IdlePager
  /\ UNCHANGED <<posts, last, writers, history, hydration, library, searching, tagging, batch, sync, auth, canon>>

ListParams ==
  {[limit |-> l, content_status |-> f, include_full_content |-> FALSE,
    max_total_chars |-> 0] : l \in {1, 2}, f \in {"none", "hydrated"}}
  \cup {[limit |-> l, content_status |-> "none", include_full_content |-> TRUE,
         max_total_chars |-> c] : l \in {2, 3}, c \in TotalCaps}

\* the stores listLocalContent is called on; the store is not written to
InitList ==
  /\ posts = [id \in AllIds |-> NoRow]
  /\ last = NoCall
  /\ writers = [w \in Writers |-> IdleWriter]
  /\ history = [id \in AllIds |-> NoHistory]
  /\ runs = [w \in Workers |-> IdleRun]
  /\ checkpoint = NoCheckpoint
  /\ due = [id \in AllIds |-> FALSE]
  /\ library \in [LibIds -> [created_at : {"", "t1"},
                             content_status : {"hydrated", "pending"},
                             chars : TextLengths]]
  /\ pager = IdlePager
  /\ catalog = NoCatalog
  /\ found = NoFound
  /\ tags = {}
  /\ tagCall = NoTagCall
  /\ batch = NoBatch
  /\ sync = IdleSync
  /\ auth = Authorized(TRUE)
  /\ canon = NoCanon

NextList ==
  \/ \E params \in ListParams : ListFirst(params)
  \/ ListNext
  \/ ListReset

SpecList == InitList /\ [][NextList]_vars

(***************************************************************************)
(* searchLocalContent of the store                                         *)
(***************************************************************************)
\* the row limit with include_full_content
FullContentLimit == 30

\* variant: the tag is stored as given
toLowerCase_AsGiven(tag) == tag

\* tag.toLowerCase()
toLowerCase(tag) ==
  IF tag = "Infra" THEN "infra"
  ELSE IF tag \in {"Solana", "SOLANA"} THEN "solana"
  ELSE tag

\* the WHERE clause of the ranked rows
Satisfies(row, params) ==
  /\ row.matches
  /\ params.tag = "none" \/ toLowerCase(params.tag) \in row.tags
  /\ params.content_status = "none" \/ row.content_status = params.content_status

\* variant: the tag and status conditions are tested on the rows the limit
\* has left
searchLocalContent_FilterAfterLimit(table, params) ==
  LET limit == Max(1, Min(params.limit,
                          IF params.include_full_content THEN FullContentLimit ELSE 100))
      ranked == SelectSeq([n \in RowNumbers |-> n], LAMBDA n : table[n].matches)
      cut == SubSeq(ranked, 1, Min(limit, Len(ranked)))
  IN  SelectSeq(cut, LAMBDA n : Satisfies(table[n], params))

\* WHERE ... ORDER BY rank LIMIT ?
searchLocalContent(table, params) ==
  LET limit == Max(1, Min(params.limit,
                          IF params.include_full_content THEN FullContentLimit ELSE 100))
      ranked == SelectSeq([n \in RowNumbers |-> n],
                          LAMBDA n : Satisfies(table[n], params))
  IN  SubSeq(ranked, 1, Min(limit, Len(ranked)))

Search(params) ==
  /\ found' = [params |-> params, data |-> searchLocalContent(catalog, params),
               called |-> TRUE]
  /\ UNCHANGED <<posts, last, writers, history, hydration, listing, catalog, tagging, batch, sync, auth, canon>>

SearchParams ==
  [tag : {"none", "Infra"}, content_status : {"none", "hydrated"},
   limit : {1, 2, FullContentLimit + 1}, include_full_content : BOOLEAN]

\* the stores searched: the first m rows by rank match the query; the tag
\* 'infra' is on every row, on the rows of odd rank, or on none; the rows
\* are 'hydrated', or 'hydrated' from rank 2 on, or 'pending'
InitSearch ==
  /\ posts = [id \in AllIds |-> NoRow]
  /\ last = NoCall
  /\ writers = [w \in Writers |-> IdleWriter]
  /\ history = [id \in AllIds |-> NoHistory]
  /\ runs = [w \in Workers |-> IdleRun]
  /\ checkpoint = NoCheckpoint
  /\ due = [id \in AllIds |-> FALSE]
  /\ library = NoLibrary
  /\ pager = IdlePager
  /\ \E m \in {0, 1, 3, SearchRows - 1, SearchRows}, tagged \in {"all", "odd", "no"},
        status \in {"all", "late", "no"} :
       catalog = [n \in RowNumbers |->
                    [matches |-> n <= m,
                     tags |-> IF tagged = "all" \/ (tagged = "odd" /\ n % 2 = 1)
                              THEN {"infra"} ELSE {},
                     content_status |-> IF status = "all" \/ (status = "late" /\ n >= 2)
                                        THEN "hydrated" ELSE "pending"]]
  /\ found = NoFound
  /\ tags = {}
  /\ tagCall = NoTagCall
  /\ batch = NoBatch
  /\ sync = IdleSync
  /\ auth = Authorized(TRUE)
  /\ canon = NoCanon

NextSearch == \E params \in SearchParams : Search(params)

SpecSearch == InitSearch /\ [][NextSearch]_vars

(***************************************************************************)
(* The tags table: PRIMARY KEY (post_id, tag), post_id REFERENCES          *)
(* posts(id), foreign_keys = ON.  tags is the set of its (post_id, tag).   *)
(***************************************************************************)
\* INSERT OR IGNORE INTO tags (post_id, tag): a row without its post raises,
\* a row that is there already is ignored
tagPosts(postIds, tag) ==
  LET raises == \E id \in postIds : ~posts[id].exists
  IN  /\ tags' = IF raises THEN tags
                 ELSE tags \cup {<<id, toLowerCase(tag)>> : id \in postIds}
      /\ tagCall' = [op |-> "tag", ids |-> postIds, tag |-> tag, raised |-> raises]
      /\ UNCHANGED <<posts, last, writers, history, hydration, listing, searching, batch, sync, auth, canon>>

tagPost(postId, tag) == tagPosts({postId}, tag)

\* DELETE FROM tags WHERE post_id = ? AND tag = ?
untagPost(postId, tag) ==
  /\ tags' = tags \ {<<postId, toLowerCase(tag)>>}
  /\ tagCall' = [op |-> "untag", ids |-> {postId}, tag |-> tag, raised |-> FALSE]
  /\ UNCHANGED <<posts, last, writers, history, hydration, listing, searching, batch, sync, auth, canon>>

\* the posts are stored by ingestion, and no statement deletes one
StorePost(id) ==
  /\ ~posts[id].exists
  /\ Ingest(id, ArticleStub, "bookmark")

TagInputs == {"Solana", "SOLANA", "solana", "defi"}

NextTags ==
  \/ \E id \in AllIds : StorePost(id)
  \/ \E id \in AllIds, tag \in TagInputs : tagPost(id, tag)
  \/ \E tag \in TagInputs : tagPosts(AllIds, tag)
  \/ \E id \in AllIds, tag \in TagInputs : untagPost(id, tag)

SpecTags == Init /\ [][NextTags]_vars

(***************************************************************************)
(* upsertPosts: the upsertPost calls of a batch in one db.transaction      *)
(***************************************************************************)
\* the table after the upsertPost calls of the posts up to the first one
\* that raises
RECURSIVE UpsertEach(_, _, _)
UpsertEach(table, items, source) ==
  IF items = <<>> THEN table
  ELSE IF Head(items).fails THEN table
  ELSE UpsertEach([table EXCEPT ![Head(items).id] =
                     upsertPostRow(table[Head(items).id], Head(items).post, source,
                                   NoOptions)],
                  Tail(items), source)

\* variant: the loop runs outside a transaction
upsertPostsTable_NoTransaction(table, items, source) == UpsertEach(table, items, source)

\* tx(): COMMIT when the loop ends, ROLLBACK when a call raises
upsertPostsTable(table, items, source) ==
  IF \E n \in 1..Len(items) : items[n].fails THEN table
  ELSE UpsertEach(table, items, source)

upsertPosts(items, source) ==
  LET after == upsertPostsTable(posts, items, source)
  IN  /\ \A id \in AllIds : after[id].content_version <= MaxVersion
      /\ posts' = after
      /\ batch' = [posts |-> items, source |-> source,
                   raised |-> \E n \in 1..Len(items) : items[n].fails]
      /\ runs' = [w \in Workers |-> [runs[w] EXCEPT !.prev = NoPrev]]
      /\ UNCHANGED <<last, writers, history, checkpoint, due, listing, searching, tagging, sync, auth, canon>>

BatchItems == [id : AllIds, post : {ArticleStub, ArticleFull}, fails : BOOLEAN]
Batches == {<<a>> : a \in BatchItems} \cup {<<a, b>> : a \in BatchItems, b \in BatchItems}

NextBatch == \E items \in Batches : upsertPosts(items, "bookmark")

SpecBatch == Init /\ [][NextBatch]_vars

(***************************************************************************)
(* The sync_bookmarks tool: syncBookmarks with stop_on_overlap and         *)
(* force_full_scan, as listed in SMART_BOOKMARK_SYNC_PLAN.md.  The run is  *)
(* made without tags and auto_tag, on posts that reference no             *)
(* other post.  sync.before is the set of ids the store held when the run  *)
(* began, sync.known says that a processed page held one of them,          *)
(* sync.has_more is result.has_more of the last page.  params.stop_before  *)
(* says whether a cutoff date was given, older whether the oldest          *)
(* timestamp of the page lies before it.                                   *)
(***************************************************************************)
MaxPages == 3

SyncParams ==
  [max_pages : 1..MaxPages, stop_on_overlap : BOOLEAN, stop_before : BOOLEAN,
   force_full_scan : BOOLEAN]

\* a page of listBookmarks: its posts, in the order of IdOrder
BookmarkPages == SUBSET AllIds

PageItems(pageIds) ==
  LET ids == SelectSeq(IdOrder, LAMBDA id : id \in pageIds)
  IN  [n \in 1..Len(ids) |-> [id |-> ids[n], post |-> ArticleStub, fails |-> FALSE]]

\* the ids of the page that the posts table holds at the time of the call
getExistingPostIds(pageIds) == {id \in pageIds : posts[id].exists}

\* the first statements of syncBookmarks
StartSync(params) ==
  /\ sync.pc \in {"idle", "done"}
  /\ sync' = [pc |-> "loop", params |-> params,
              before |-> {id \in AllIds : posts[id].exists},
              allPosts |-> {}, known |-> FALSE, pages |-> 0,
              stopReason |-> "none", overlapDetected |-> FALSE, has_more |-> FALSE]
  /\ UNCHANGED <<posts, last, writers, history, hydration, listing, searching, tagging, batch, auth, canon>>

\* one iteration of while (pages < params.max_pages)
SyncPage(data, has_more, older) ==
  /\ sync.pc = "loop"
  /\ sync.pages < sync.params.max_pages
  /\ IF data = {}
       THEN /\ sync' = [sync EXCEPT !.stopReason = "no_more_pages",
                                    !.pages = @ + 1, !.pc = "after",
                                    !.has_more = has_more]
            /\ UNCHANGED <<posts, runs>>
       ELSE LET existingIds == getExistingPostIds(data)
                after == upsertPostsTable(posts, PageItems(data), "bookmark")
                overlap == /\ ~sync.params.force_full_scan
                           /\ sync.params.stop_on_overlap
                           /\ existingIds # {}
                cutoff == /\ ~sync.params.force_full_scan
                          /\ sync.params.stop_before
                          /\ older
            IN  /\ \A id \in AllIds : after[id].content_version <= MaxVersion
                /\ posts' = after
                /\ runs' = [w \in Workers |-> [runs[w] EXCEPT !.prev = NoPrev]]
                /\ sync' = [sync EXCEPT
                     !.allPosts = @ \cup data,
                     !.known = IF data \cap sync.before # {} THEN TRUE ELSE @,
                     !.overlapDetected = IF existingIds # {} THEN TRUE ELSE @,
                     !.pages = @ + 1,
                     !.has_more = has_more,
                     !.stopReason = IF overlap THEN "overlap"
                                    ELSE IF cutoff THEN "date_cutoff"
                                    ELSE IF ~has_more THEN "no_more_pages"
                                    ELSE @,
                     !.pc = IF overlap \/ cutoff \/ ~has_more THEN "after" ELSE "loop"]
  /\ UNCHANGED <<last, writers, history, checkpoint, due, listing, searching, tagging, batch, auth, canon>>

\* variant: the result carries the reason a break has set, if any
SyncReturn_ReasonOfBreak ==
  /\ IF sync.pc = "loop" THEN sync.pages >= sync.params.max_pages ELSE sync.pc = "after"
  /\ sync' = [sync EXCEPT !.pc = "done"]
  /\ UNCHANGED <<posts, last, writers, history, hydration, listing, searching, tagging, batch, auth, canon>>

\* the statements after the loop, up to the SyncResult returned
SyncReturn ==
  /\ IF sync.pc = "loop" THEN sync.pages >= sync.params.max_pages ELSE sync.pc = "after"
  /\ sync' = [sync EXCEPT
       !.stopReason = IF @ = "none" /\ sync.pages >= sync.params.max_pages
                      THEN "max_pages" ELSE @,
       !.pc = "done"]
  /\ UNCHANGED <<posts, last, writers, history, hydration, listing, searching, tagging, batch, auth, canon>>

\* the steps of a run that was started
SyncStep ==
  \/ \E data \in BookmarkPages, has_more \in BOOLEAN, older \in BOOLEAN :
       SyncPage(data, has_more, older)
  \/ SyncReturn

NextSync ==
  \/ \E id \in AllIds : sync.pc \in {"idle", "done"} /\ StorePost(id)
  \/ \E params \in SyncParams : StartSync(params)
  \/ SyncStep

SpecSync == Init /\ [][NextSync]_vars

\* every await of a run that was started resolves
SpecSyncRuns == SpecSync /\ WF_vars(SyncStep)

(***************************************************************************)
(* getUserClient (src/src/auth/oauth.ts), with X_API_CLIENT_ID configured. *)
(* auth.now is Date.now(), auth.stored is tokens.json, auth.userClient is  *)
(* the module variable _userClient, auth.call is the last call with the    *)
(* client it returned.                                                     *)
(***************************************************************************)
MaxClock == 6
Lifetimes == {1, 2}

Client(expires_at) == [built |-> TRUE, expires_at |-> expires_at]

\* time passes
Tick ==
  /\ auth.now < MaxClock
  /\ auth' = [auth EXCEPT !.now = @ + 1]
  /\ UNCHANGED <<posts, last, writers, history, hydration, listing, searching, tagging, batch, sync, canon>>

\* one call; refreshOk says whether oauth2.refreshToken answers, expires_in
\* is the lifetime of the token it answers with
getUserClient(refreshOk, expires_in) ==
  LET stored == auth.stored
      now == auth.now
      expired == stored.expires_at < now
      returned(client) == [called |-> TRUE, at |-> now, expired |-> expired,
                           client |-> client]
  IN  /\ auth' =
           IF auth.userClient.built
             THEN [auth EXCEPT !.call = returned(auth.userClient)]
           ELSE IF expired /\ stored.refresh_token
             THEN IF refreshOk
                    THEN [auth EXCEPT
                            !.stored = [stored EXCEPT !.expires_at = now + expires_in],
                            !.userClient = Client(now + expires_in),
                            !.call = returned(Client(now + expires_in))]
                    ELSE [auth EXCEPT !.call = returned(NoClient)]
           ELSE [auth EXCEPT !.userClient = Client(stored.expires_at),
                             !.call = returned(Client(stored.expires_at))]
      /\ UNCHANGED <<posts, last, writers, history, hydration, listing, searching, tagging, batch, sync, canon>>

\* a new process: the module variable starts as null, tokens.json stays
Restart ==
  /\ auth.userClient.built
  /\ auth' = [auth EXCEPT !.userClient = NoClient, !.call = NoAuthCall]
  /\ UNCHANGED <<posts, last, writers, history, hydration, listing, searching, tagging, batch, sync, canon>>

InitAuth ==
  /\ posts = [id \in AllIds |-> NoRow]
  /\ last = NoCall
  /\ writers = [w \in Writers |-> IdleWriter]
  /\ history = [id \in AllIds |-> NoHistory]
  /\ runs = [w \in Workers |-> IdleRun]
  /\ checkpoint = NoCheckpoint
  /\ due = [id \in AllIds |-> FALSE]
  /\ library = NoLibrary
  /\ pager = IdlePager
  /\ catalog = NoCatalog
  /\ found = NoFound
  /\ tags = {}
  /\ tagCall = NoTagCall
  /\ batch = NoBatch
  /\ sync = IdleSync
  /\ auth \in {Authorized(refreshable) : refreshable \in BOOLEAN}
  /\ canon = NoCanon

NextAuth ==
  \/ Tick
  \/ \E refreshOk \in BOOLEAN, expires_in \in Lifetimes : getUserClient(refreshOk, expires_in)
  \/ Restart

SpecAuth == InitAuth /\ [][NextAuth]_vars

(***************************************************************************)
(* canonicalizePost on payloads with every combination of article body,    *)
(* note text and base text that is absent, empty, blank or filled.         *)
(***************************************************************************)
ArticleBodies == {NullText, <<>>, <<"sp">>, <<"word", "sp", "block">>}
NoteTexts == {NullText, <<>>, <<"sp">>, <<"hi", "sp", "word">>}
BaseTexts == {<<>>, <<"sp">>, <<"word">>}

CanonPayloads ==
  {Post(FALSE, NullText, NullText, note, text, FALSE) : note \in NoteTexts, text \in BaseTexts}
  \cup {Post(TRUE, TitleA, body, note, text, FALSE) :
          body \in ArticleBodies, note \in NoteTexts, text \in BaseTexts}

Canonicalize ==
  /\ ~canon.called
  /\ canon' = [canon EXCEPT !.called = TRUE,
                            !.normalized = canonicalizePost(canon.post, canon.source)]
  /\ UNCHANGED <<posts, last, writers, history, hydration, listing, searching, tagging, batch, sync, auth>>

InitCanon ==
  /\ posts = [id \in AllIds |-> NoRow]
  /\ last = NoCall
  /\ writers = [w \in Writers |-> IdleWriter]
  /\ history = [id \in AllIds |-> NoHistory]
  /\ runs = [w \in Workers |-> IdleRun]
  /\ checkpoint = NoCheckpoint
  /\ due = [id \in AllIds |-> FALSE]
  /\ library = NoLibrary
  /\ pager = IdlePager
  /\ catalog = NoCatalog
  /\ found = NoFound
  /\ tags = {}
  /\ tagCall = NoTagCall
  /\ batch = NoBatch
  /\ sync = IdleSync
  /\ auth = Authorized(TRUE)
  /\ canon \in {[NoCanon EXCEPT !.post = post, !.source = source] :
                  post \in CanonPayloads, source \in Sources}

NextCanon == Canonicalize

SpecCanon == InitCanon /\ [][NextCanon]_vars

(***************************************************************************)
(* Properties.  In a step of Spec, posts is the table before the call,     *)
(* posts' the table after it and last' the call with what it returned.     *)
(***************************************************************************)
IsUpsert(call) == call.op = "upsertPost"

\* the canonical content of the call's payload
Incoming(call) == Canonical[call.post, call.source]

\* the call found a row and its version check passed
Decided(call, before) ==
  IsUpsert(call) /\ before.exists /\ ~VersionMismatch(before, call.options)

ContentColumns(row) ==
  <<row.article_title, row.article_content, row.content_text, row.content_source,
    row.content_status, row.content_hash, row.content_quality_score,
    row.content_version>>

C2_PlaceholderNeverReplacesHydrated ==
  [][\A id \in Ids :
       (/\ IsUpsert(last') /\ last'.id = id
        /\ ~last'.options.forceContent
        /\ posts[id].exists /\ posts[id].content_status = "hydrated"
        /\ isPlaceholderUrlContent(Incoming(last').contentText))
       => posts'[id].content_text = posts[id].content_text]_vars

\* C3: a row with content_status = 'hydrated' has a content_text that is
\* non-empty and not placeholder content.
C3_HydratedIsRealContent ==
  \A id \in Ids :
    (posts[id].exists /\ posts[id].content_status = "hydrated")
    => /\ posts[id].content_text # NullText
       /\ posts[id].content_text # <<>>
       /\ ~isPlaceholderUrlContent(posts[id].content_text)

\* a row that a worker had claimed is hydrated, while a writer holds a
\* snapshot of it taken before
C3_Witness ==
  \E id \in Ids :
    /\ posts[id].content_status = "hydrated"
    /\ posts[id].attempt_count > 0
    /\ writers[Observed].pc = "update"
    /\ writers[Observed].existing.content_status # "hydrated"

\* the acceptance rule as the documents give it: forced, or other content
\* that scores higher or meets a row that is not hydrated
StatedRule(call, before) ==
  \/ call.options.forceContent
  \/ /\ Incoming(call).contentHash # before.content_hash
     /\ \/ Incoming(call).qualityScore > before.content_quality_score
        \/ before.content_status # "hydrated"

\* C4 as stated: on an existing row that passes the version check the
\* content is accepted exactly when forceContent is set, or the hash differs
\* and (the score is higher or the stored status is not 'hydrated').
C4_AcceptedExactlyByStatedRule ==
  [][\A id \in Ids :
       (Decided(last', posts[id]) /\ last'.id = id)
       => (last'.outcome.contentAccepted <=> StatedRule(last', posts[id]))]_vars

\* C4 amended: accepted exactly when the incoming body is not empty (its
\* hash is not null) and the stated rule holds; forceContent with a
\* non-empty body is always accepted.
C4_AcceptedExactlyByRuleOnNonEmptyBody ==
  [][\A id \in Ids :
       (Decided(last', posts[id]) /\ last'.id = id)
       => (last'.outcome.contentAccepted
             <=> (Incoming(last').contentHash # NullText /\ StatedRule(last', posts[id])))]_vars

\* a forced write with a non-empty body has just been accepted by a row
\* that existed, and left it with a status other than 'hydrated'
C4_Witness ==
  \E id \in Ids :
    /\ IsUpsert(last) /\ last.id = id /\ last.options.forceContent
    /\ last.outcome.contentAccepted /\ last.outcome.contentVersion > 1
    /\ Incoming(last).contentHash # NullText
    /\ posts[id].content_status # "hydrated"

\* C5: a row is created at content_version 1 by a call that is always
\* accepted (also with expectedContentVersion), the stored version is 1 plus
\* the number of later calls that returned contentAccepted = true, and every
\* call returns the version stored right after it.
C5_VersionCountsAcceptedCalls ==
  [][\A id \in Ids :
       (IsUpsert(last') /\ last'.id = id)
       => /\ posts'[id].exists
          /\ last'.outcome.contentVersion = posts'[id].content_version
          /\ posts'[id].content_version = 1 + history'[id].accepted
          /\ ~posts[id].exists =>
               /\ last'.outcome.contentAccepted
               /\ last'.outcome.contentVersion = 1]_vars

\* two later calls were accepted and the call just made was not
C5_Witness ==
  \E id \in Ids :
    /\ IsUpsert(last) /\ last.id = id /\ ~last.outcome.contentAccepted
    /\ history[id].accepted = 2
    /\ posts[id].content_version = 3

\* C6: an upsertPost whose expectedContentVersion differs from the stored
\* content_version returns contentAccepted = false with skippedReason
\* 'version_mismatch' and changes no column, also with forceContent.
C6_StaleVersionWritesNothing ==
  [][\A id \in Ids :
       (/\ IsUpsert(last') /\ last'.id = id /\ posts[id].exists
        /\ last'.options.hasExpected
        /\ last'.options.expectedContentVersion # posts[id].content_version)
       => /\ ~last'.outcome.contentAccepted
          /\ last'.outcome.skippedReason = "version_mismatch"
          /\ posts'[id] = posts[id]]_vars

\* a forced write with a stale expected version has just been turned away
C6_Witness ==
  \E id \in Ids :
    /\ IsUpsert(last) /\ last.id = id /\ last.options.forceContent
    /\ last.options.hasExpected
    /\ last.options.expectedContentVersion # posts[id].content_version
    /\ last.outcome.skippedReason = "version_mismatch"
    /\ Incoming(last).contentHash # posts[id].content_hash

C8_RejectionKeepsContentColumns ==
  [][\A id \in Ids :
       (/\ Decided(last', posts[id]) /\ last'.id = id
        /\ Incoming(last').contentHash # NullText
        /\ ~last'.outcome.contentAccepted)
       => ContentColumns(posts'[id]) = ContentColumns(posts[id])]_vars

\* C9: under any interleaving with other writers on the same id, the two
\* inserting the same new id included, upsertPost never raises.
C9_UpsertNeverRaises ==
  \A id \in Ids : ~history[id].raised

\* C10: the calls that return contentAccepted = true return pairwise
\* distinct versions, the stored content_version is the starting version
\* plus the number of accepted calls, and no accepted write was decided on
\* content that another accepted write had already replaced.
C10_AcceptedWritesSerialized ==
  \A id \in Ids :
    /\ ~history[id].duplicate
    /\ ~history[id].staleAccept
    /\ posts[id].exists => posts[id].content_version = 1 + history[id].accepted

\* two updates were accepted one after the other while a call of the other
\* writer lost the race in both of its cycles and gave up
C10_Witness ==
  \E id \in Ids :
    /\ history[id].accepted = 2
    /\ history[id].versions = {1, 2, 3}
    /\ history[id].concurrentUpdate

\* C12: no upsertPost call changes a row's content_status from another
\* value to 'fetching': every step that moves a row into 'fetching' is a
\* markHydrationFetching.
C12_OnlyTheClaimSetsFetching ==
  [][\A id \in Ids :
       (posts[id].content_status # "fetching" /\ posts'[id].content_status = "fetching")
       => \E v \in 0..(MaxVersion + 1) : MarkHydrationFetching(id, v)]_vars

\* C15: no ordinary ingestion upsertPost (bookmark, manual, reference
\* expansion, made without forceContent) moves a row out of 'missing'.
C15_IngestionKeepsMissing ==
  [][\A id \in Ids :
       (/\ IsUpsert(last') /\ last'.id = id
        /\ ~last'.options.forceContent
        /\ last'.source \in {"bookmark", "manual", "reference"}
        /\ posts[id].exists /\ posts[id].type = "article"
        /\ posts[id].content_status = "missing")
       => posts'[id].content_status = "missing"]_vars

\* worker w has claimed row id with a markHydrationFetching that succeeded
\* and has not yet resolved the claim (written the payload or the failure)
HoldsClaim(w, id) ==
  /\ runs[w].pc \in {"claim", "fetch", "process"}
  /\ \E n \in 1..Len(runs[w].claimed) :
       runs[w].claimed[n].id = id /\ n >= runs[w].i

\* C11: at any moment at most one worker holds a successful, not yet
\* resolved claim on a given row.
C11_NoDoubleClaim ==
  \A id \in AllIds : Cardinality({w \in Workers : HoldsClaim(w, id)}) <= 1

\* C13: when a run with no concurrent writer returns, every row it claimed
\* has left 'fetching': it is 'hydrated', 'partial', 'failed' or 'missing'.
C13_ClaimedRowsLeaveFetching ==
  \A w \in Workers :
    runs[w].pc = "done"
    => \A id \in SeqIds(runs[w].claimed) :
         posts[id].content_status \in {"hydrated", "partial", "failed", "missing"}

\* the claimed candidates of w whose iteration is over and whose fetch was
\* unresolved
Unresolved(w) ==
  {n \in 1..Len(runs[w].claimed) :
     n < runs[w].i /\ runs[w].fetched[runs[w].claimed[n].id] = NoPost}

\* C14: with maxAttempts = N, the k-th claim of a row whose fetch is
\* unresolved ends, for k < N, with status 'failed', error_code
\* 'RETRY_MISSING' and a next_retry_at that is not null, and for k = N with
\* status 'missing', error_code 'NOT_FOUND' and next_retry_at = null.
C14_UnresolvedFetchFailsThenMissing ==
  \A w \in Workers : \A n \in Unresolved(w) :
    LET c == runs[w].claimed[n]
        row == posts[c.id]
        k == c.attempt_count + 1
        N == runs[w].params.max_attempts
    IN  /\ row.attempt_count = k
        /\ k < N => /\ row.content_status = "failed"
                    /\ row.error_code = "RETRY_MISSING"
                    /\ row.next_retry_at # "null"
        /\ k = N => /\ row.content_status = "missing"
                    /\ row.error_code = "NOT_FOUND"
                    /\ row.next_retry_at = "null"

\* the second claim of a row, made after its backoff had passed by a run
\* with maxAttempts = 2, has ended in 'missing'
C14_Witness ==
  \E w \in Workers : \E n \in Unresolved(w) :
    /\ runs[w].params.max_attempts = 2
    /\ runs[w].claimed[n].attempt_count = 1
    /\ runs[w].claimed[n].content_status = "failed"
    /\ ~runs[w].params.force
    /\ posts[runs[w].claimed[n].id].content_status = "missing"

\* C16: the outcome of a claimed row whose hydration write met a version
\* mismatch carries error_code 'CONCURRENT_UPDATE' and is counted in
\* 'skipped'.
C16_VersionMismatchIsSkipped ==
  \A w \in Workers : \A n \in 1..Len(runs[w].rows) :
    runs[w].writes[n] = "version_mismatch"
    => /\ runs[w].rows[n].error_code = "CONCURRENT_UPDATE"
       /\ CountedAs(runs[w].rows[n]) = "skipped"

\* C17: whatever the fetch failures and write errors, a run that is not a
\* dry run returns normally, and its rows hold exactly one outcome for every
\* selected candidate.
C17_RunReturnsOneRowPerCandidate ==
  \A w \in Workers :
    /\ runs[w].pc # "raised"
    /\ (runs[w].pc = "done" /\ ~IsDryRun(runs[w].params))
       => /\ Len(runs[w].rows) = Len(runs[w].candidates)
          /\ \A n \in 1..Len(runs[w].candidates) :
               Cardinality({m \in 1..Len(runs[w].rows) :
                              runs[w].rows[m].id = runs[w].candidates[n].id}) = 1

\* the run of w repeats, on an unchanged table, a run whose candidates all
\* ended 'hydrated'
RepeatsHydratedRun(w) ==
  /\ runs[w].prev.allHydrated
  /\ runs[w].pc # "idle"
  /\ runs[w].params = runs[w].prev.params

\* C18 as stated: a run that repeats, with the same parameters, a run whose candidates
\* all ended 'hydrated' makes no successful claim and changes no row.
C18_RerunOnHydratedClaimsNothing ==
  [][\A w \in Workers :
       (runs[w].prev.allHydrated /\ RepeatsHydratedRun(w)')
       => /\ posts' = posts
          /\ runs'[w].claimed = <<>>]_vars

\* C18 amended: such a run makes no successful claim on a candidate of the
\* run it repeats and changes none of those rows.
C18_RerunLeavesHydratedCandidates ==
  [][\A w \in Workers :
       (runs[w].prev.allHydrated /\ RepeatsHydratedRun(w)')
       => \A id \in runs[w].prev.ids :
            /\ posts'[id] = posts[id]
            /\ id \notin SeqIds(runs'[w].claimed)]_vars

\* a repeated run on explicit ids has selected the hydrated rows, claimed
\* none of them and is done
C18_Witness ==
  \E w \in Workers :
    /\ RepeatsHydratedRun(w)
    /\ runs[w].pc = "done" /\ ~IsDryRun(runs[w].params)
    /\ runs[w].candidates # <<>>
    /\ Len(runs[w].rows) = Len(runs[w].candidates)
    /\ \A n \in 1..Len(runs[w].rows) :
         /\ runs[w].rows[n].old_status = "hydrated"
         /\ runs[w].rows[n].new_status = "hydrated"

\* C19: a run with dry_run = true changes no row and does not write the
\* backfill checkpoint, issues no claim and no fetch, and every row it
\* returns has new_status = old_status = the current status of the row.
C19_DryRunChangesNothing ==
  [][\A w \in Workers :
       (runs'[w].params.dry_run /\ runs'[w] # runs[w])
       => /\ posts' = posts
          /\ checkpoint' = checkpoint
          /\ runs[w].pc = "idle" /\ runs'[w].pc = "done"
          /\ runs'[w].claimed = <<>>
          /\ runs'[w].fetched = runs[w].fetched
          /\ Len(runs'[w].rows) = Len(runs'[w].candidates)
          /\ \A n \in 1..Len(runs'[w].rows) :
               LET r == runs'[w].rows[n]
               IN  /\ r.id = runs'[w].candidates[n].id
                   /\ r.old_status = posts'[r.id].content_status
                   /\ r.new_status = r.old_status]_vars

\* a dry run in backfill mode, with a checkpoint saved, has returned a
\* 'failed' row
C19_Witness ==
  \E w \in Workers :
    /\ runs[w].pc = "done"
    /\ runs[w].params.dry_run /\ runs[w].params.backfill
    /\ runs[w].rows # <<>>
    /\ checkpoint.exists
    /\ \E n \in 1..Len(runs[w].rows) : runs[w].rows[n].old_status = "failed"

\* the step is one iteration of w's loop over claimed that ran to its end
Processed(w) ==
  /\ runs[w].pc = "process"
  /\ runs'[w].i = runs[w].i + 1

\* C20: in backfill mode, after a claimed candidate has been processed,
\* whatever its outcome, the saved checkpoint is that candidate's
\* (created_at, id) and processed_count has grown by exactly one.
C20_CheckpointFollowsEveryCandidate ==
  [][\A w \in Workers :
       (Processed(w) /\ runs[w].params.backfill)
       => LET c == runs[w].claimed[runs[w].i]
          IN  /\ checkpoint'.exists
              /\ checkpoint'.cursor_created_at = c.created_at
              /\ checkpoint'.cursor_id = c.id
              /\ checkpoint'.processed_count = checkpoint.processed_count + 1]_vars

\* the saved cursor c2 is not before the saved cursor c1 in (created_at, id)
\* order
NotBefore(c2, c1) ==
  \/ TimePos(c2.cursor_created_at) > TimePos(c1.cursor_created_at)
  \/ /\ c2.cursor_created_at = c1.cursor_created_at
     /\ Pos(c2.cursor_id) >= Pos(c1.cursor_id)

\* C21: across the hydration runs, with any parameters, the saved
\* (cursor_created_at, cursor_id) never moves to a smaller position and
\* processed_count never decreases.
C21_CheckpointIsMonotonic ==
  [][/\ checkpoint.exists => checkpoint'.exists
     /\ (checkpoint.exists /\ checkpoint.cursor_id # "null")
        => /\ checkpoint'.cursor_id # "null"
           /\ NotBefore(checkpoint', checkpoint)
     /\ checkpoint'.processed_count >= checkpoint.processed_count]_vars

\* w starts a backfill run from the checkpoint, and its last backfill run
\* crashed
ResumesCrashedBackfill(w) ==
  /\ runs[w].prev.crashed
  /\ runs[w].prev.params.backfill /\ runs[w].prev.params.ids = {}
  /\ runs[w].pc = "idle" /\ runs'[w].pc # "idle"
  /\ runs'[w].params.backfill /\ runs'[w].params.ids = {}
  /\ ~runs'[w].params.dry_run

\* the row is one a run with these parameters may select, the cursor aside
StillEligible(row, elapsed, params) ==
  /\ row.exists
  /\ row.content_status \in RETRYABLE_STATUSES
  /\ row.type = "article"
  /\ params.force \/ row.next_retry_at = "null" \/ elapsed

\* C22: a fresh backfill run, forced or not, after a backfill run crashed
\* selects no row whose outcome the crashed run had committed, and selects
\* every still-eligible row the crashed run had not reached.
C22_ResumesAfterTheCommittedRows ==
  [][\A w \in Workers :
       ResumesCrashedBackfill(w)
       => /\ SeqIds(runs'[w].candidates) \cap runs[w].prev.committed = {}
          /\ \A id \in runs[w].prev.ids \ runs[w].prev.committed :
               StillEligible(posts[id], due[id], runs'[w].params)
               => id \in SeqIds(runs'[w].candidates)]_vars

\* C23: with include_full_content, whenever the response has truncated =
\* true the lengths of the returned content_text values sum to at most
\* max_total_chars, and truncated is not set when the full texts of the
\* rows already summed to at most max_total_chars.
C23_TruncatedMeansWithinCap ==
  (pager.pc # "idle" /\ pager.params.include_full_content)
  => LET returned == [n \in 1..Len(pager.page) |-> pager.page[n].content_text]
         full == [n \in 1..Len(pager.page) |-> pager.page[n].full]
     IN  /\ pager.truncated => SumSeq(returned) <= pager.params.max_total_chars
         /\ SumSeq(full) <= pager.params.max_total_chars => ~pager.truncated

\* the ids of the store that match the caller's filters
Matching == {id \in LibIds : MatchesFilters(library, id, pager.params)}

\* C24: following the cursor from the first page until has_more is false
\* returns every matching row exactly once, in descending (created_at, id)
\* order; has_more is true exactly when matching rows remain after the page.
C24_PagesCoverEveryRowOnce ==
  pager.pc # "idle"
  => /\ \A m, n \in 1..Len(pager.seen) : m # n => pager.seen[m] # pager.seen[n]
     /\ pager.pc = "finished" => pager.seen = OrderDesc(library, Matching)
     /\ pager.has_more <=>
          \E id \in Matching :
            /\ pager.page # <<>>
            /\ ListedBefore(library, pager.page[Len(pager.page)].id, id)

\* the rows of the store that the last search had to consider
Wanted == {n \in RowNumbers : Satisfies(catalog[n], found.params)}

\* C25 as stated: a search returns only rows that match the query and
\* satisfy the tag and content_status filters given, and when at least
\* limit rows satisfy them, limit rows are returned.
C25_SearchFiltersBeforeLimit ==
  found.called
  => /\ \A k \in 1..Len(found.data) : found.data[k] \in Wanted
     /\ \A j, k \in 1..Len(found.data) : j # k => found.data[j] # found.data[k]
     /\ Cardinality(Wanted) >= found.params.limit
        => Len(found.data) = found.params.limit

\* C25 amended: the same with the limit the code applies, which is at most
\* 30 rows with include_full_content; and fewer rows are returned only when
\* fewer satisfy query and filters.
C25_SearchFiltersBeforeClampedLimit ==
  found.called
  => LET limit == IF found.params.include_full_content
                  THEN Min(found.params.limit, FullContentLimit)
                  ELSE found.params.limit
     IN  /\ \A k \in 1..Len(found.data) : found.data[k] \in Wanted
         /\ \A j, k \in 1..Len(found.data) : j # k => found.data[j] # found.data[k]
         /\ Len(found.data) = Min(limit, Cardinality(Wanted))

\* a tag-scoped search returned limit rows although the rows of best rank
\* do not all carry the tag
C25_Witness ==
  /\ found.called /\ found.params.tag # "none" /\ found.params.limit = 2
  /\ Len(found.data) = 2
  /\ \E n \in RowNumbers :
       /\ n < found.data[2]
       /\ catalog[n].matches /\ n \notin Wanted

\* C26: applying the same upsertPost twice leaves the row as applying it
\* once did (same content_version, same canonical content fields, same
\* article_title), and the second call returns contentAccepted = false.
C26_UpsertPostIsIdempotent ==
  [][\A id \in Ids :
       (/\ IsUpsert(last) /\ IsUpsert(last')
        /\ last.id = id /\ last'.id = id
        /\ last.options = NoOptions /\ last'.options = NoOptions
        /\ last'.post = last.post /\ last'.source = last.source
        /\ ~last.outcome.raised
        /\ posts' # posts \/ last' # last)
       => /\ ContentColumns(posts'[id]) = ContentColumns(posts[id])
          /\ ~last'.outcome.contentAccepted]_vars

\* the spellings of one tag
Spellings(tag) ==
  IF tag \in {"Solana", "SOLANA", "solana"} THEN {"Solana", "SOLANA", "solana"}
  ELSE {tag}

\* the rows of the tags table that associate the post with the tag, in any
\* letter case
Associations(table, id, tag) == {row \in table : row[1] = id /\ row[2] \in Spellings(tag)}

\* C27: every (post_id, tag) row references an existing post and has a
\* lowercase tag; tagPost for an id without post adds no row; tagging with
\* the same tag in any letter case leaves a single association; untagPost
\* removes it whatever the letter case of its argument.
C27_TagsReferencePostsInLowercase ==
  [][/\ \A row \in tags' : posts'[row[1]].exists /\ row[2] \in {"solana", "defi"}
     /\ tagCall' # tagCall =>
          \A id \in tagCall'.ids :
            /\ (tagCall'.op = "tag" /\ ~posts[id].exists) => tags' = tags
            /\ (tagCall'.op = "tag" /\ ~tagCall'.raised)
               => Cardinality(Associations(tags', id, tagCall'.tag)) = 1
            /\ tagCall'.op = "untag" => Associations(tags', id, tagCall'.tag) = {}]_vars

\* a post tagged 'SOLANA' has the single row 'solana', and an id has no post
C27_Witness ==
  /\ tagCall.op = "tag" /\ tagCall.tag = "SOLANA" /\ ~tagCall.raised
  /\ \E id \in tagCall.ids : tags = {<<id, "solana">>}
  /\ \E id \in AllIds : ~posts[id].exists

\* C28: when the upsert of a post of the batch fails, no write of the
\* batch is persisted; when none fails, all are: every post of the batch
\* has its row, a post stored for the first time has the row of its insert,
\* and the other rows are as before.
C28_BatchIsAllOrNothing ==
  [][(batch' # batch \/ posts' # posts)
     => LET items == batch'.posts
            ids == {items[n].id : n \in 1..Len(items)}
        IN  IF \E n \in 1..Len(items) : items[n].fails
            THEN posts' = posts
            ELSE /\ \A id \in ids : posts'[id].exists
                 /\ \A id \in AllIds \ ids : posts'[id] = posts[id]
                 /\ \A n \in 1..Len(items) :
                      (/\ ~posts[items[n].id].exists
                       /\ \A m \in 1..Len(items) : items[m].id = items[n].id => m = n)
                      => posts'[items[n].id] =
                           INSERT_POST_SQL(items[n].post, batch'.source,
                                           Canonical[items[n].post, batch'.source])]_vars

\* the second post of a batch failed, and the first, a new post, is not in
\* the store
C28_Witness ==
  /\ batch.raised /\ Len(batch.posts) = 2
  /\ ~batch.posts[1].fails /\ batch.posts[2].fails
  /\ batch.posts[1].id # batch.posts[2].id
  /\ ~posts[batch.posts[1].id].exists
  /\ posts[batch.posts[2].id].exists

\* the last run was made with stop_on_overlap and without force_full_scan
StopsOnOverlap == sync.params.stop_on_overlap /\ ~sync.params.force_full_scan

C30_ExpiredTokenIsRefreshed ==
  (auth.call.called /\ auth.call.expired /\ auth.stored.refresh_token)
  => auth.call.client.built /\ auth.call.client.expires_at >= auth.call.at

\* the row waits for a retry whose time has not come
BackingOff(id) ==
  /\ posts[id].content_status = "failed"
  /\ posts[id].next_retry_at # "null"
  /\ ~due[id]

\* the step is a claim made by a run that is forced or names the id
ClaimedOnDemand(id) ==
  \E w \in Workers :
    /\ runs[w].pc = "claim"
    /\ runs'[w] # runs[w]
    /\ runs[w].params.force \/ id \in runs[w].params.ids

\* the scheduled run selects the row
SelectedBySchedule(id) ==
  id \in SeqIds(getHydrationCandidates(posts, due,
                  [Scheduled(2) EXCEPT !.limit = Len(IdOrder)], NoCursor))

\* C31: a failed row whose next_retry_at is in the future is claimed only by
\* a run that is forced or was given its id, under any interleaving of
\* workers; once the time has reached next_retry_at the scheduled run
\* selects the row again.
C31_BackoffIsRespected ==
  /\ [][\A id \in AllIds :
          (BackingOff(id) /\ posts'[id].content_status = "fetching")
          => ClaimedOnDemand(id)]_vars
  /\ [](\A id \in AllIds :
          (posts[id].content_status = "failed" /\ posts[id].type = "article" /\ due[id])
          => SelectedBySchedule(id))

\* C32: in a run during which no other writer touches the table, no row of
\* the result carries error_code 'CONCURRENT_UPDATE', also when the run was
\* given the ids of rows that are hydrated, missing or fetching.
C32_SkippedOnlyAfterConcurrentWrite ==
  \A n \in 1..Len(runs[Runner].rows) :
    runs[Runner].rows[n].error_code # "CONCURRENT_UPDATE"

\* the result the run returns
Result(w) == aggregate(runs[w].rows, IsDryRun(runs[w].params))

\* C33: the counters of a result partition its rows: processed = hydrated +
\* partial + failed + missing + skipped, also for rows whose final status is
\* 'fetching' or 'pending'.
C33_CountersPartitionTheRows ==
  runs[Runner].pc = "done"
  => Result(Runner).processed =
       Result(Runner).hydrated + Result(Runner).partial + Result(Runner).failed
       + Result(Runner).missing + Result(Runner).skipped

\* the step is a claim of the run that changed the row
ClaimCalled(w) == runs[w].pc = "claim" /\ runs'[w].pc # "idle"

ClaimWon(w, id) ==
  /\ ClaimCalled(w)
  /\ runs[w].candidates[runs[w].j].id = id
  /\ Len(runs'[w].claimed) > Len(runs[w].claimed)

\* the step is an iteration of the run that called markHydrationFailure
FailureMarked(w) ==
  /\ runs[w].pc = "process"
  /\ runs[w].i <= Len(runs[w].claimed)
  /\ Len(runs'[w].rows) > Len(runs[w].rows)
  /\ runs'[w].rows[Len(runs'[w].rows)].error_code # "none"

VersionedColumns(row) ==
  <<row.content_version, row.content_text, row.content_hash, row.content_quality_score>>

\* C34: markHydrationFetching and markHydrationFailure never change
\* content_version, content_text, content_hash or content_quality_score, and
\* content_version never decreases; a successful claim adds exactly one to
\* attempt_count and clears error_code and content_error, and no other
\* operation on a stored row changes attempt_count.
C34_MarksKeepContentAndCountClaims ==
  [][\A id \in AllIds :
       /\ posts'[id].content_version >= posts[id].content_version
       /\ (ClaimCalled(Runner) \/ FailureMarked(Runner))
          => VersionedColumns(posts'[id]) = VersionedColumns(posts[id])
       /\ IF ClaimWon(Runner, id)
          THEN /\ posts'[id].attempt_count = posts[id].attempt_count + 1
               /\ posts'[id].error_code = "null"
               /\ posts'[id].content_error = "null"
          ELSE posts'[id].attempt_count = posts[id].attempt_count]_vars

\* a row that was claimed again after its failure was marked
C34_Witness ==
  \E id \in AllIds :
    /\ posts[id].content_status = "fetching"
    /\ posts[id].attempt_count = 2
    /\ posts[id].next_retry_at # "null"
    /\ posts[id].error_code = "null"

\* C35: an upsertPost on a stored row whose incoming canonical body is empty
\* is never accepted, whatever the stored status and score and also with
\* forceContent: content_text and content_version stay as they were.
C35_EmptyBodyNeverWins ==
  [][\A id \in Ids :
       (/\ IsUpsert(last') /\ last'.id = id /\ posts[id].exists
        /\ Incoming(last').contentText = <<>>)
       => /\ Incoming(last').contentHash = NullText
          /\ ~last'.outcome.contentAccepted
          /\ posts'[id].content_text = posts[id].content_text
          /\ posts'[id].content_version = posts[id].content_version]_vars

\* a forced write of an empty body has just been refused by a row that holds
\* a text
C35_Witness ==
  \E id \in Ids :
    /\ IsUpsert(last) /\ last.id = id /\ last.options.forceContent
    /\ Incoming(last).contentText = <<>>
    /\ ~last.outcome.contentAccepted /\ last.outcome.skippedReason = "none"
    /\ posts[id].content_text \notin {NullText, <<>>}

\* the field the body is to be taken from: the article text if present,
\* else the note text if not blank, else the base text
BodyField(post) ==
  IF post.article /\ normalizeWhitespace(post.body) # <<>> THEN "article"
  ELSE IF normalizeWhitespace(post.note_tweet_text) # <<>> THEN "note_tweet"
  ELSE IF normalizeWhitespace(post.text) # <<>> THEN "tweet"
  ELSE "unknown"

FieldText(post, field) ==
  IF field = "article" THEN normalizeWhitespace(post.body)
  ELSE IF field = "note_tweet" THEN normalizeWhitespace(post.note_tweet_text)
  ELSE IF field = "tweet" THEN normalizeWhitespace(post.text)
  ELSE <<>>

\* C36: the canonical body is the article text if present, else the note
\* text if present and not blank, else the base text, else empty;
\* contentSource names the field the body was taken from and is 'unknown'
\* exactly when the body is empty.
C36_BodyAndSourceAgree ==
  canon.called
  => /\ canon.normalized.contentText = FieldText(canon.post, BodyField(canon.post))
     /\ canon.normalized.contentSource = BodyField(canon.post)
     /\ canon.normalized.contentSource = "unknown"
        <=> canon.normalized.contentText = <<>>

\* the lengths of the full texts of the rows before row n of the page
Before(n) == SumSeq([k \in 1..(n - 1) |-> pager.page[k].full])

\* C37: with include_full_content, the rows whose texts fit into the budget
\* one after the other are returned whole, the first row whose text does not
\* fit is cut to the first `remaining` characters followed by '...' (to the
\* empty string when nothing remains), every later row is emptied, and
\* truncated is true exactly when a row did not fit.
C37_BudgetCutsTheFirstRowThatDoesNotFit ==
  (pager.pc # "idle" /\ pager.params.include_full_content)
  => LET cap == pager.params.max_total_chars
         last_ == Len(pager.page)
     IN  /\ \A n \in 1..last_ :
                pager.page[n].content_text =
                  IF Before(n + 1) <= cap THEN pager.page[n].full
                  ELSE IF Before(n) < cap THEN cap - Before(n) + 3
                  ELSE 0
         /\ pager.truncated <=> Before(last_ + 1) > cap

\* a page whose first row is whole, whose second row is cut and whose third
\* row, with a text, is emptied
C37_Witness ==
  /\ pager.pc # "idle" /\ pager.params.include_full_content
  /\ Len(pager.page) = 3
  /\ pager.page[1].full > 0 /\ pager.page[1].content_text = pager.page[1].full
  /\ pager.page[2].content_text = pager.params.max_total_chars - pager.page[1].full + 3
  /\ pager.page[3].full > 0 /\ pager.page[3].content_text = 0
  /\ pager.truncated

StopReasons == {"overlap", "date_cutoff", "max_pages", "no_more_pages"}

C39_RetryColumnsFollowStatus ==
  \A id \in AllIds :
    posts[id].exists
    => /\ posts[id].content_status = "failed"
          => posts[id].error_code # "null" /\ posts[id].next_retry_at # "null"
       /\ posts[id].content_status = "missing" => posts[id].next_retry_at = "null"
       /\ posts[id].content_status = "fetching" => posts[id].error_code = "null"

\* a row whose failure was marked twice and is now missing
C39_Witness ==
  \E id \in AllIds :
    /\ posts[id].content_status = "missing"
    /\ posts[id].attempt_count = 2
    /\ posts[id].error_code = "NOT_FOUND"

\* C40: in every reachable state a row whose content_source is 'article'
\* has type 'article', also after an upsertPost whose content was rejected.
C40_TypeDescribesStoredContent ==
  \A id \in Ids :
    (posts[id].exists /\ posts[id].content_source = "article")
    => posts[id].type = "article"

====
